---- MODULE Spec2Model ----
(***************************************************************************)
(* Model of the evaluation runner (SXG.EvalPlatform.EvaluationEngine):     *)
(* the queue consumer AzureQueueService.listen_for_messages, the handler   *)
(* EvaluationApp._handle_queue_message and the seven-step pipeline         *)
(* EvaluationEngine.process_queue_message with its retry wrapper.          *)
(*                                                                         *)
(* The storage queue, the two audit queues and the results API are the     *)
(* environment: every call to them either succeeds or fails, chosen by \E. *)
(***************************************************************************)
EXTENDS Integers, Sequences, FiniteSets, TLC

\* ------------------------------------------------------------------ bounds
MaxDequeue == 3       \* deliveries of one message that are explored
MaxItems == 2         \* dataset items of one run
MaxMetrics == 2       \* metric configurations of one run

\* ------------------------------------------------------- program constants
max_message_retries == 2     \* EvaluationConfig.max_message_retries
max_retries == 3             \* _fetch_with_retry(max_retries=3)
base_delay == 60             \* _fetch_with_retry(base_delay=60)

\* The properties concern one message and its deliveries: the work queue
\* holds one message, which the queue delivers up to MaxDequeue times.
Msgs == {"m1"}
NoMsg == "none"
Workers == {"w1"}            \* one consumer loop per worker process
\* Coroutines that call the engine of the worker process: the consumer loop
\* and, for the single-flight lock, a second caller of the same engine.
Tasks == Workers \cup {"t2"}
\* evaluation_engine = EvaluationEngine(): the process has one engine.
evaluation_engine(t) == "w1"

\* What the body of a queue message is, as QueueMessage.from_json sees it.
\*   valid          a JSON object with EvalRunId and MetricsConfigurationId
\*   invalid_json   json.loads raises json.JSONDecodeError
\*   missing_field  get_field raises KeyError
\*   other_error    any other exception of from_json: ValueError of
\*                  datetime.fromisoformat for a bad RequestedAt, TypeError for
\*                  a JSON value that is not an object
BodyKinds == {"valid", "invalid_json", "missing_field", "other_error"}

\* QueueMessage.from_json: the parsed message, or the exception it raises.
from_json(kind) ==
    CASE kind = "valid"         -> "QueueMessage"
      [] kind = "invalid_json"  -> "JSONDecodeError"
      [] kind = "missing_field" -> "KeyError"
      [] OTHER                  -> "Exception"

\* What a message handler can hand back to listen_for_messages.
HandlerReturns == {"True", "False", "None", "truthy_nonbool", "falsy_nonbool"}
HandlerRaises == {"KeyError", "Exception"}

\* Statuses of a run at the results API are "none", "EvalRunStarted",
\* "EvalRunCompleted" and "EvalRunFailed"; the last two are terminal. The API
\* answers a status update with "ok" (200/204), "terminal" (400 "already in a
\* terminal state") or "fail" (anything else).
TerminalStatuses == {"EvalRunCompleted", "EvalRunFailed"}

VARIABLES
    body,            \* body[m]: kind of the message body
    inQueue,         \* inQueue[m]: the message is in the work queue
    visible,         \* visible[m]: no lease hides the message
    dequeue_count,   \* dequeue_count[m]: times the queue delivered m
    success_queue,   \* success_queue[m]: records in the success-audit queue
    failure_queue,   \* failure_queue[m]: records in the failure-audit queue
    ext_status,      \* ext_status[m]: status of the run at the results API
    posted,          \* posted[m]: successful post_results calls for the run
    issued,          \* issued[m]: statuses some update call has sent for the run
    pc,              \* pc[w]: where worker w is
    cur,             \* cur[w]: message of the current (or last) delivery
    dqc,             \* dqc[w]: message.dequeue_count of that delivery
    queue_message,   \* queue_message[w]: TRUE once from_json returned
    raw,             \* raw[w]: processing_successful_raw, or "unset"
    events,          \* events[w]: calls the consumer made in this delivery
    lock,            \* lock[w]: _processing_lock of the worker's engine is held
    steps_completed, \* steps_completed[w]: JobProgress of the running job
    started,         \* started[w]: steps the job has begun, in order
    job_data,        \* job_data[w]: sizes of the parsed dataset and metric list
    results,         \* results[w]: score of every (item, metric) pair
    api_calls,       \* api_calls[w]: API calls and sleeps of this job
    ret,             \* ret[w]: value process_queue_message returned
    metrics_config,  \* metrics_config[w]: MetricConfig list of the fan-out
    metric_scores,   \* metric_scores[w]: MetricScores of the item scored last
    evaluated,       \* evaluated[w]: what the evaluators did for that item
    resolver_config, \* tables and rules the MetricNameResolver has loaded
    resolved,        \* the last resolve_metric_name call and what it returned
    evaluation_config, \* EvaluationConfig of the settings
    item_tasks,      \* item_tasks[i]: state of the task of dataset item i
    metric_tasks,    \* metric_tasks[i][j]: state of the task of metric j of item i
    finished,        \* item tasks and, per item, metric tasks in the order they ended
    gathered,        \* what _run_evaluations got from the outer gather
    payloads,        \* payloads[w]: what the two fetch endpoints serve the job
    retry_call,      \* the last direct _fetch_with_retry call and what it did
    summary_call,    \* the last direct _generate_summary call and its summary
    fetch_tasks,     \* the two retried fetches of one fetch_data step and its job
    http_session     \* lock, session and callers of the shared EvaluationApiClient

vars == <<body, inQueue, visible, dequeue_count, success_queue, failure_queue,
          ext_status, posted, issued, pc, cur, dqc, queue_message, raw, events, lock,
          steps_completed, started, job_data, results, api_calls, ret,
          metrics_config, metric_scores, evaluated, resolver_config, resolved,
          evaluation_config, item_tasks, metric_tasks, finished, gathered,
          payloads, retry_call, summary_call, fetch_tasks, http_session>>

queueVars == <<body, inQueue, visible, dequeue_count, success_queue,
               failure_queue, ext_status, posted, issued>>
jobVars == <<lock, steps_completed, started, job_data, results, api_calls, ret>>
fanVars == <<metrics_config, metric_scores, evaluated>>
resolverVars == <<resolver_config, resolved>>
taskVars == <<evaluation_config, item_tasks, metric_tasks, finished, gathered>>
NotEvaluated == [item_failed |-> FALSE, behaviours |-> <<>>]

NoResults == <<>>
NoData == [items |-> 0, metrics |-> 0]

\* The resolver before _load_configuration has run, and before the first
\* resolve_metric_name call.
NotLoaded == [loaded |-> FALSE]
NotResolved == [called |-> FALSE]

\* What an endpoint serves in the field the runner reads: a list with
\* entries, a list without entries, or nothing (no field, or a null body).
Payloads == {"items", "empty", "absent"}
NoPayloads == [dataset |-> "unset", metrics |-> "unset"]

\* No task of the fan-out has ended, and the outer gather has not returned.
NoneFinished == [items |-> <<>>, metrics |-> <<>>]
NotGathered == [returned |-> FALSE, results |-> <<>>]

\* No caller has called _fetch_with_retry directly.
NotCalledYet == [called |-> FALSE]

\* The two coroutines step 1 hands to asyncio.gather, and their state before
\* the step has begun.
Fetches == {"fetch_enriched_dataset", "fetch_metrics_configuration"}
NoFetches ==
    [job |-> "idle", later_job |-> FALSE,
     task |-> [f \in Fetches |->
                 [state |-> "pending", attempt |-> 0, last_exception |-> "None"]]]

\* EvaluationApiClient.__init__: no lock, no session; no caller is inside
\* the client.
ApiCallers == {"c1", "c2", "c3"}
NoSession ==
    [lock |-> "None", session |-> "None", aged |-> FALSE, auth |-> "open",
     caller |-> [c \in ApiCallers |-> "outside"]]

\* Defaults of the EvaluationConfig dataclass.
EvaluationConfig == [max_parallel_prompts |-> 10, max_parallel_metrics |-> 5]

Init ==
    /\ body \in [Msgs -> BodyKinds]
    /\ inQueue = [m \in Msgs |-> TRUE]
    /\ visible = [m \in Msgs |-> TRUE]
    /\ dequeue_count = [m \in Msgs |-> 0]
    /\ success_queue = [m \in Msgs |-> 0]
    /\ failure_queue = [m \in Msgs |-> 0]
    /\ ext_status = [m \in Msgs |-> "none"]
    /\ posted = [m \in Msgs |-> 0]
    /\ issued = [m \in Msgs |-> {}]
    /\ pc = [w \in Tasks |-> "poll"]
    /\ cur = [w \in Tasks |-> NoMsg]
    /\ dqc = [w \in Tasks |-> 0]
    /\ queue_message = [w \in Tasks |-> FALSE]
    /\ raw = [w \in Tasks |-> "unset"]
    /\ events = [w \in Tasks |-> <<>>]
    /\ lock = [w \in Workers |-> FALSE]
    /\ steps_completed = [w \in Tasks |-> <<>>]
    /\ started = [w \in Tasks |-> <<>>]
    /\ job_data = [w \in Tasks |-> NoData]
    /\ results = [w \in Tasks |-> NoResults]
    /\ api_calls = [w \in Tasks |-> <<>>]
    /\ ret = [w \in Tasks |-> "unset"]
    /\ metrics_config = [w \in Tasks |-> <<>>]
    /\ metric_scores = [w \in Tasks |-> <<>>]
    /\ evaluated = [w \in Tasks |-> NotEvaluated]
    /\ resolver_config = NotLoaded
    /\ resolved = NotResolved
    /\ evaluation_config = EvaluationConfig
    /\ item_tasks = <<>>
    /\ metric_tasks = <<>>
    /\ finished = NoneFinished
    /\ gathered = NotGathered
    /\ payloads = [w \in Tasks |-> NoPayloads]
    /\ retry_call = NotCalledYet
    /\ summary_call = NotCalledYet
    /\ fetch_tasks = NoFetches
    /\ http_session = NoSession

\* ------------------------------------------------------------- helpers
Range(s) == {s[i] : i \in DOMAIN s}
\* An event of a delivery: a call the consumer made and whether it went
\* through. Calls(w, name) counts the calls, Done(w, name) the successful ones.
Ev(name, ok) == <<name, ok>>
Calls(w, name) == Cardinality({i \in DOMAIN events[w] : events[w][i][1] = name})
Done(w, name) == Cardinality({i \in DOMAIN events[w] : events[w][i] = Ev(name, TRUE)})

\* ------------------------------------------------------------ the queue
loop_ends == "stopped"
\* while True: an iteration that ended, in the try or in one of the except
\* branches, is followed by the sleep and the next receive_messages call.
next_poll == "poll"

\* The visibility timeout of a lease elapses: the message can be received
\* again. It can elapse while the job of that delivery is still running.
VisibilityTimeout(m) ==
    /\ inQueue[m]
    /\ ~visible[m]
    /\ visible' = [visible EXCEPT ![m] = TRUE]
    /\ UNCHANGED <<body, inQueue, dequeue_count, success_queue, failure_queue,
                   ext_status, posted, issued, pc, cur, dqc, queue_message, raw,
                   events>>
    /\ UNCHANGED jobVars
    /\ UNCHANGED fanVars
    /\ UNCHANGED <<resolverVars, taskVars, payloads, retry_call, summary_call,
                   fetch_tasks, http_session>>

\* queue_client.receive_messages(max_messages=1, visibility_timeout=...):
\* one delivery starts; the queue counts it and hides the message.
Receive(w, m) ==
    /\ pc[w] = "poll"
    /\ inQueue[m]
    /\ visible[m]
    /\ dequeue_count[m] < MaxDequeue
    /\ dequeue_count' = [dequeue_count EXCEPT ![m] = @ + 1]
    /\ visible' = [visible EXCEPT ![m] = FALSE]
    /\ cur' = [cur EXCEPT ![w] = m]
    /\ dqc' = [dqc EXCEPT ![w] = dequeue_count[m] + 1]
    /\ queue_message' = [queue_message EXCEPT ![w] = FALSE]
    /\ raw' = [raw EXCEPT ![w] = "unset"]
    /\ events' = [events EXCEPT ![w] = <<>>]
    /\ pc' = [pc EXCEPT ![w] = "parse"]
    /\ UNCHANGED <<body, inQueue, success_queue, failure_queue, ext_status,
                   posted, issued>>
    /\ UNCHANGED jobVars
    /\ UNCHANGED fanVars
    /\ UNCHANGED <<resolverVars, taskVars, payloads, retry_call, summary_call,
                   fetch_tasks, http_session>>

\* queue_client.receive_messages raises (the queue cannot be reached): the
\* outer except of the loop logs the error; no message was delivered in this
\* iteration.
ReceiveFails(w) ==
    /\ pc[w] = "poll"
    /\ cur' = [cur EXCEPT ![w] = NoMsg]
    /\ dqc' = [dqc EXCEPT ![w] = 0]
    /\ queue_message' = [queue_message EXCEPT ![w] = FALSE]
    /\ raw' = [raw EXCEPT ![w] = "unset"]
    /\ events' = [events EXCEPT ![w] = <<Ev("receive", FALSE)>>]
    /\ pc' = [pc EXCEPT ![w] = next_poll]
    /\ UNCHANGED queueVars
    /\ UNCHANGED jobVars
    /\ UNCHANGED fanVars
    /\ UNCHANGED <<resolverVars, taskVars, payloads, retry_call, summary_call,
                   fetch_tasks, http_session>>

\* queue_client.delete_message(message): removes the message when the call
\* goes through and the pop receipt of this delivery is still the current one.
DeleteSucceeds(w, callOk) ==
    /\ callOk
    /\ inQueue[cur[w]]
    /\ dequeue_count[cur[w]] = dqc[w]

\* ------------------------------------------------- results API: status
\* What the API can answer to a status update of a run in status current.
ValidResponses(current) ==
    IF current \in TerminalStatuses THEN {"terminal", "fail"} ELSE {"ok", "fail"}

\* EvaluationApiClient.update_evaluation_status: True for 200/204 and for
\* 400 "already in a terminal state", False for everything else (errors
\* included: it never raises).
update_evaluation_status(resp) == resp \in {"ok", "terminal"}

\* The status of the run at the API after the call.
StatusAfter(current, status, resp) == IF resp = "ok" THEN status ELSE current

\* ------------------------------------------------------- the consumer
\* listen_for_messages, lines 239, 288, 349 and 389: the retries of the
\* message are used up.
retries_exhausted_early(dq) == dq >= max_message_retries - 1
retries_exhausted(dq) == dq >= max_message_retries

\* AzureQueueService._handle_final_failure(queue_message, failure_details):
\* with a parsed message it sends EvalRunFailed and then calls
\* log_failure_message (one send, errors swallowed); with queue_message None
\* the eval_run_id is "unknown", no status is sent, and a failed send is
\* repeated once by the except block. It never raises.
\* The result is what the call did: its events, the run status and the number
\* of records that reached the failure-audit queue.
_handle_final_failure(m, parsed, resp, fa1, fa2) ==
    IF parsed
    THEN [ev     |-> <<Ev("status_failed", update_evaluation_status(resp)),
                       Ev("failure_audit", fa1)>>,
          status |-> StatusAfter(ext_status[m], "EvalRunFailed", resp),
          sent   |-> {"EvalRunFailed"},
          audits |-> IF fa1 THEN 1 ELSE 0]
    ELSE [ev     |-> IF fa1 THEN <<Ev("failure_audit", TRUE)>>
                     ELSE <<Ev("failure_audit", FALSE), Ev("failure_audit", fa2)>>,
          status |-> ext_status[m],
          sent   |-> {},
          audits |-> IF fa1 \/ fa2 THEN 1 ELSE 0]

\* listen_for_messages, lines 143-172: the recovery of the content and
\* QueueMessage.from_json(message_content).
ParseMessage(w) ==
    /\ pc[w] = "parse"
    /\ LET r == from_json(body[cur[w]]) IN
         IF r = "QueueMessage"
         THEN /\ queue_message' = [queue_message EXCEPT ![w] = TRUE]
              /\ pc' = [pc EXCEPT ![w] = "handler"]
         ELSE /\ pc' = [pc EXCEPT ![w] = r]
              /\ UNCHANGED queue_message
    /\ UNCHANGED <<cur, dqc, raw, events>>
    /\ UNCHANGED queueVars
    /\ UNCHANGED jobVars
    /\ UNCHANGED fanVars
    /\ UNCHANGED <<resolverVars, taskVars, payloads, retry_call, summary_call,
                   fetch_tasks, http_session>>

\* listen_for_messages, lines 200-208: the handler's value as the consumer
\* reads it. None is False, a bool is itself, anything else goes through
\* bool().
processing_successful(r) ==
    CASE r = "None"            -> FALSE
      [] r \in {"True", "False"} -> r = "True"
      [] OTHER                 -> r = "truthy_nonbool"

\* listen_for_messages, lines 223-254: the decision on the handler's value.
\* Success: success-audit write (errors swallowed), then delete. Failure:
\* at dequeue_count >= max_message_retries final-failure handling, then
\* delete; below it nothing. A delete that raises goes to the except
\* Exception branch.
ProcessResult(w) ==
    /\ pc[w] = "result"
    /\ LET m == cur[w] IN
       IF processing_successful(raw[w])
       THEN \E sa \in BOOLEAN, del \in BOOLEAN :
              /\ events' = [events EXCEPT ![w] =
                     @ \o <<Ev("success_audit", sa),
                            Ev("delete", DeleteSucceeds(w, del))>>]
              /\ success_queue' = [success_queue EXCEPT ![m] = @ + (IF sa THEN 1 ELSE 0)]
              /\ inQueue' = [inQueue EXCEPT ![m] = @ /\ ~DeleteSucceeds(w, del)]
              /\ pc' = [pc EXCEPT ![w] =
                     IF DeleteSucceeds(w, del) THEN next_poll ELSE "Exception"]
              /\ UNCHANGED <<failure_queue, ext_status, issued>>
       ELSE IF retries_exhausted(dqc[w])
       THEN \E resp \in ValidResponses(ext_status[m]), fa \in BOOLEAN, del \in BOOLEAN :
              LET f == _handle_final_failure(m, queue_message[w], resp, fa, fa) IN
              /\ events' = [events EXCEPT ![w] =
                     @ \o f.ev \o <<Ev("delete", DeleteSucceeds(w, del))>>]
              /\ failure_queue' = [failure_queue EXCEPT ![m] = @ + f.audits]
              /\ ext_status' = [ext_status EXCEPT ![m] = f.status]
              /\ issued' = [issued EXCEPT ![m] = @ \cup f.sent]
              /\ inQueue' = [inQueue EXCEPT ![m] = @ /\ ~DeleteSucceeds(w, del)]
              /\ pc' = [pc EXCEPT ![w] =
                     IF DeleteSucceeds(w, del) THEN next_poll ELSE "Exception"]
              /\ UNCHANGED success_queue
       ELSE /\ pc' = [pc EXCEPT ![w] = next_poll]
            /\ UNCHANGED <<events, success_queue, failure_queue, ext_status, inQueue, issued>>
    /\ UNCHANGED <<body, visible, dequeue_count, posted, cur, dqc, queue_message, raw>>
    /\ UNCHANGED jobVars
    /\ UNCHANGED fanVars
    /\ UNCHANGED <<resolverVars, taskVars, payloads, retry_call, summary_call,
                   fetch_tasks, http_session>>

\* The except KeyError branch (lines 256-308) and the except
\* json.JSONDecodeError branch (lines 309-367): at dequeue_count >=
\* max_message_retries final-failure handling and delete, with every error
\* of the two swallowed; below it the message is left.
HandleParseError(w, exc) ==
    /\ pc[w] = exc
    /\ LET m == cur[w] IN
       IF retries_exhausted(dqc[w])
       THEN \E resp \in ValidResponses(ext_status[m]), fa1 \in BOOLEAN,
               fa2 \in BOOLEAN, del \in BOOLEAN :
              LET f == _handle_final_failure(m, queue_message[w], resp, fa1, fa2) IN
              /\ events' = [events EXCEPT ![w] =
                     @ \o f.ev \o <<Ev("delete", DeleteSucceeds(w, del))>>]
              /\ failure_queue' = [failure_queue EXCEPT ![m] = @ + f.audits]
              /\ ext_status' = [ext_status EXCEPT ![m] = f.status]
              /\ issued' = [issued EXCEPT ![m] = @ \cup f.sent]
              /\ inQueue' = [inQueue EXCEPT ![m] = @ /\ ~DeleteSucceeds(w, del)]
       ELSE UNCHANGED <<events, failure_queue, ext_status, inQueue, issued>>
    /\ pc' = [pc EXCEPT ![w] = next_poll]
    /\ UNCHANGED <<body, visible, dequeue_count, success_queue, posted, cur, dqc,
                   queue_message, raw>>
    /\ UNCHANGED jobVars
    /\ UNCHANGED fanVars
    /\ UNCHANGED <<resolverVars, taskVars, payloads, retry_call, summary_call,
                   fetch_tasks, http_session>>

HandleKeyError(w) == HandleParseError(w, "KeyError")
HandleJSONDecodeError(w) == HandleParseError(w, "JSONDecodeError")

\* The except Exception branch (lines 368-402): at dequeue_count >=
\* max_message_retries final-failure handling; the message is never deleted
\* here.
HandleException(w) ==
    /\ pc[w] = "Exception"
    /\ LET m == cur[w] IN
       IF retries_exhausted(dqc[w])
       THEN \E resp \in ValidResponses(ext_status[m]), fa1 \in BOOLEAN, fa2 \in BOOLEAN :
              LET f == _handle_final_failure(m, queue_message[w], resp, fa1, fa2) IN
              /\ events' = [events EXCEPT ![w] = @ \o f.ev]
              /\ failure_queue' = [failure_queue EXCEPT ![m] = @ + f.audits]
              /\ ext_status' = [ext_status EXCEPT ![m] = f.status]
              /\ issued' = [issued EXCEPT ![m] = @ \cup f.sent]
       ELSE UNCHANGED <<events, failure_queue, ext_status, issued>>
    /\ pc' = [pc EXCEPT ![w] = next_poll]
    /\ UNCHANGED <<body, inQueue, visible, dequeue_count, success_queue, posted,
                   cur, dqc, queue_message, raw>>
    /\ UNCHANGED jobVars
    /\ UNCHANGED fanVars
    /\ UNCHANGED <<resolverVars, taskVars, payloads, retry_call, summary_call,
                   fetch_tasks, http_session>>

\* listen_for_messages with a handler that is any callable: line 186,
\* processing_successful_raw = await message_handler(queue_message), where
\* the handler returns any value or raises.
AnyHandler(w) ==
    /\ pc[w] = "handler"
    /\ \/ \E r \in HandlerReturns :
            /\ raw' = [raw EXCEPT ![w] = r]
            /\ pc' = [pc EXCEPT ![w] = "result"]
       \/ \E x \in HandlerRaises :
            /\ pc' = [pc EXCEPT ![w] = x]
            /\ UNCHANGED raw
    /\ events' = [events EXCEPT ![w] = Append(@, Ev("handler", TRUE))]
    /\ UNCHANGED <<cur, dqc, queue_message>>
    /\ UNCHANGED queueVars
    /\ UNCHANGED jobVars
    /\ UNCHANGED fanVars
    /\ UNCHANGED <<resolverVars, taskVars, payloads, retry_call, summary_call,
                   fetch_tasks, http_session>>

\* ------------------------------------------------------ the retry wrapper
\* Keys of the dictionary _extract_api_error_details returns.
error_details_keys ==
    {"error_type", "error_message", "api_status_code", "api_response_body",
     "api_response_headers", "api_error_type", "is_retryable",
     "failure_category", "exception_module", "exception_class"}

\* log_operation_error(logger, name, error, **properties) calls
\* log_structured(..., error_type=..., error_message=..., **properties):
\* Python raises TypeError when properties repeats one of the two keywords.
log_operation_error_raises(properties) ==
    properties \cap {"error_type", "error_message"} # {}

\* Keyword arguments of the log_operation_error call in the except block of
\* _fetch_with_retry: the explicit ones and **error_details.
retry_log_properties ==
    {"eval_run_id", "attempt", "max_attempts", "operation", "error_details",
     "call_duration_seconds", "backoff_strategy"} \cup error_details_keys

\* The environment of one retried call: the call raises in its first `fails`
\* attempts and goes through in every later one, if `good`.
CallOk(fails, good) == [a \in 0..max_retries |-> a >= fails /\ good]
Fails == 0..(max_retries + 1)

\* EvaluationEngine._fetch_with_retry from attempt `attempt` on: the call is
\* made; when it raises, the except block logs through log_operation_error
\* (whose TypeError leaves the function at once), sleeps
\* base_delay * 2^attempt before the next attempt, and after the last
\* attempt raises the last exception.
RECURSIVE _fetch_with_retry(_, _)
_fetch_with_retry(callOk, attempt) ==
    IF callOk[attempt]
    THEN [ok |-> TRUE, calls |-> 1, sleeps |-> <<>>]
    ELSE IF log_operation_error_raises(retry_log_properties)
    THEN [ok |-> FALSE, calls |-> 1, sleeps |-> <<>>]
    ELSE IF attempt < max_retries
    THEN LET r == _fetch_with_retry(callOk, attempt + 1) IN
         [ok |-> r.ok, calls |-> 1 + r.calls,
          sleeps |-> <<base_delay * (2 ^ attempt)>> \o r.sleeps]
    ELSE [ok |-> FALSE, calls |-> 1, sleeps |-> <<>>]

\* What a retried operation did, in order: its calls (all but the last
\* raised) and, between them, its asyncio.sleep calls with their seconds.
CallsOf(name, r) ==
    [i \in 1..(r.calls + Len(r.sleeps)) |->
        IF i % 2 = 1
        THEN <<name, (i + 1) \div 2 = r.calls /\ r.ok>>
        ELSE <<"sleep", r.sleeps[i \div 2]>>]

\* ------------------------------------------------------------ the pipeline
critical_steps_with_status ==
    {"fetch_data", "parse_data", "run_evaluations", "generate_summary",
     "post_results", "update_status"}
\* process_queue_message, line 879.
critical_steps == {"fetch_data", "parse_data", "run_evaluations",
                   "generate_summary", "post_results"}

\* A step ends: recorded in steps_completed and on to the next step, or the
\* exception it raised goes to the outermost except of
\* process_queue_message.
StepDone(w, step, next) ==
    /\ steps_completed' = [steps_completed EXCEPT ![w] = Append(@, step)]
    /\ pc' = [pc EXCEPT ![w] = next]
StepRaised(w) ==
    /\ UNCHANGED steps_completed
    /\ pc' = [pc EXCEPT ![w] = "job_except"]
Begin(w, step) == started' = [started EXCEPT ![w] = Append(@, step)]

_processing_lock_always_free(t) == TRUE
\* async with self._processing_lock (asyncio.Lock): the caller goes on only
\* when no invocation on the same engine holds the lock.
_processing_lock_free(t) == ~lock[evaluation_engine(t)]

\* EvaluationApp._handle_queue_message calls process_queue_message, which
\* takes _processing_lock and starts with an empty steps_completed.
StartJob(w) ==
    /\ pc[w] = "handler"
    /\ _processing_lock_free(w)
    /\ lock' = [lock EXCEPT ![evaluation_engine(w)] = TRUE]
    /\ events' = [events EXCEPT ![w] = Append(@, Ev("handler", TRUE))]
    /\ steps_completed' = [steps_completed EXCEPT ![w] = <<>>]
    /\ started' = [started EXCEPT ![w] = <<>>]
    /\ job_data' = [job_data EXCEPT ![w] = NoData]
    /\ results' = [results EXCEPT ![w] = NoResults]
    /\ api_calls' = [api_calls EXCEPT ![w] = <<>>]
    /\ ret' = [ret EXCEPT ![w] = "unset"]
    /\ pc' = [pc EXCEPT ![w] = "fetch_data"]
    /\ UNCHANGED <<cur, dqc, queue_message, raw>>
    /\ UNCHANGED queueVars
    /\ UNCHANGED fanVars
    /\ payloads' = [payloads EXCEPT ![w] = NoPayloads]
    /\ UNCHANGED <<resolverVars, taskVars, retry_call, summary_call,
                   fetch_tasks, http_session>>

\* APIClient.fetch_enriched_dataset returns the response (rather than
\* raising ValueError) only when its dataset field is a list with entries.
fetch_enriched_dataset(payload) == payload = "items"

fetch_metrics_configuration_unvalidated(payload) == TRUE
\* APIClient.fetch_metrics_configuration returns the response only when it
\* is, or its metrics field is, a list with entries.
fetch_metrics_configuration(payload) == payload = "items"

\* A step 1 that is followed by the EvalRunStarted update.
FetchData_then_status(w) ==
    /\ pc[w] = "fetch_data"
    /\ Begin(w, "fetch_data")
    /\ \E df \in Fails, dp \in Payloads, cf \in Fails, cp \in Payloads :
          LET d == _fetch_with_retry(CallOk(df, fetch_enriched_dataset(dp)), 0)
              c == _fetch_with_retry(CallOk(cf, fetch_metrics_configuration(cp)), 0)
          IN /\ api_calls' = [api_calls EXCEPT ![w] =
                    @ \o CallsOf("fetch_enriched_dataset", d)
                      \o CallsOf("fetch_metrics_configuration", c)]
             /\ payloads' = [payloads EXCEPT ![w] = [dataset |-> dp, metrics |-> cp]]
             /\ IF d.ok /\ c.ok
                THEN StepDone(w, "fetch_data", "update_status_started")
                ELSE StepRaised(w)
    /\ UNCHANGED <<lock, job_data, results, ret, cur, dqc, queue_message, raw, events>>
    /\ UNCHANGED queueVars
    /\ UNCHANGED fanVars
    /\ UNCHANGED <<resolverVars, taskVars, retry_call, summary_call,
                   fetch_tasks, http_session>>
\* Step 1, lines 319-399: the dataset and the metrics configuration are
\* fetched by two retried calls under asyncio.gather. Each call raises for an
\* HTTP error in its first attempts and for an empty or absent payload in
\* every attempt.
FetchData(w) ==
    /\ pc[w] = "fetch_data"
    /\ Begin(w, "fetch_data")
    /\ \E df \in Fails, dp \in Payloads, cf \in Fails, cp \in Payloads :
          LET d == _fetch_with_retry(CallOk(df, fetch_enriched_dataset(dp)), 0)
              c == _fetch_with_retry(CallOk(cf, fetch_metrics_configuration(cp)), 0)
          IN /\ api_calls' = [api_calls EXCEPT ![w] =
                    @ \o CallsOf("fetch_enriched_dataset", d)
                      \o CallsOf("fetch_metrics_configuration", c)]
             /\ payloads' = [payloads EXCEPT ![w] = [dataset |-> dp, metrics |-> cp]]
             /\ IF d.ok /\ c.ok
                THEN StepDone(w, "fetch_data", "parse_data")
                ELSE StepRaised(w)
    /\ UNCHANGED <<lock, job_data, results, ret, cur, dqc, queue_message, raw, events>>
    /\ UNCHANGED queueVars
    /\ UNCHANGED fanVars
    /\ UNCHANGED <<resolverVars, taskVars, retry_call, summary_call,
                   fetch_tasks, http_session>>

\* Step 2, lines 401-476: EnrichedDatasetResponse.from_json and
\* MetricsConfigurationResponse.from_json build the dataset and the metric
\* list, or raise.
ParseData(w) ==
    /\ pc[w] = "parse_data"
    /\ Begin(w, "parse_data")
    /\ \/ \E n \in 1..MaxItems, k \in 1..MaxMetrics :
            /\ job_data' = [job_data EXCEPT ![w] = [items |-> n, metrics |-> k]]
            /\ StepDone(w, "parse_data", "update_status_started")
       \/ /\ UNCHANGED job_data
          /\ StepRaised(w)
    /\ UNCHANGED <<lock, results, api_calls, ret, cur, dqc, queue_message, raw, events>>
    /\ UNCHANGED queueVars
    /\ UNCHANGED fanVars
    /\ UNCHANGED <<resolverVars, taskVars, payloads, retry_call, summary_call,
                   fetch_tasks, http_session>>

\* EvaluationEngine._update_evaluation_status under _fetch_with_retry: the
\* API does not answer in the first `fails` attempts; an answered call
\* succeeds. The result says whether the operation succeeded, what the run
\* status is afterwards and which calls were made.
UpdateStatusWithRetry(m, status, fails) ==
    LET resp == IF ext_status[m] \in TerminalStatuses THEN "terminal" ELSE "ok"
        r == _fetch_with_retry(CallOk(fails, update_evaluation_status(resp)), 0)
    IN [ok |-> r.ok,
        status |-> IF r.ok THEN StatusAfter(ext_status[m], status, resp)
                   ELSE ext_status[m],
        calls |-> CallsOf(status, r)]

UpdateStatusStarted_best_effort(w) ==
    /\ pc[w] = "update_status_started"
    /\ Begin(w, "update_status_started")
    /\ \E fails \in Fails :
          LET u == UpdateStatusWithRetry(cur[w], "EvalRunStarted", fails) IN
          /\ api_calls' = [api_calls EXCEPT ![w] = @ \o u.calls]
          /\ ext_status' = [ext_status EXCEPT ![cur[w]] = u.status]
          /\ issued' = [issued EXCEPT ![cur[w]] = @ \cup {"EvalRunStarted"}]
          /\ IF u.ok
             THEN StepDone(w, "update_status_started", "run_evaluations")
             ELSE /\ UNCHANGED steps_completed
                  /\ pc' = [pc EXCEPT ![w] = "run_evaluations"]
    /\ UNCHANGED <<lock, job_data, results, ret, cur, dqc, queue_message, raw, events>>
    /\ UNCHANGED <<body, inQueue, visible, dequeue_count, success_queue,
                   failure_queue, posted>>
    /\ UNCHANGED fanVars
    /\ UNCHANGED <<resolverVars, taskVars, payloads, retry_call, summary_call,
                   fetch_tasks, http_session>>
\* Step 3, lines 478-534: EvalRunStarted; a failure is raised.
UpdateStatusStarted(w) ==
    /\ pc[w] = "update_status_started"
    /\ Begin(w, "update_status_started")
    /\ \E fails \in Fails :
          LET u == UpdateStatusWithRetry(cur[w], "EvalRunStarted", fails) IN
          /\ api_calls' = [api_calls EXCEPT ![w] = @ \o u.calls]
          /\ ext_status' = [ext_status EXCEPT ![cur[w]] = u.status]
          /\ issued' = [issued EXCEPT ![cur[w]] = @ \cup {"EvalRunStarted"}]
          /\ IF u.ok
             THEN StepDone(w, "update_status_started", "run_evaluations")
             ELSE StepRaised(w)
    /\ UNCHANGED <<lock, job_data, results, ret, cur, dqc, queue_message, raw, events>>
    /\ UNCHANGED <<body, inQueue, visible, dequeue_count, success_queue,
                   failure_queue, posted>>
    /\ UNCHANGED fanVars
    /\ UNCHANGED <<resolverVars, taskVars, payloads, retry_call, summary_call,
                   fetch_tasks, http_session>>

\* What one (item, metric) evaluation can do.
EvalOutcomes == {"positive", "zero", "raise", "timeout"}

\* The score of the MetricScore the fan-out records for an outcome: the
\* evaluator's score, or 0.0 for an evaluation that raised or timed out
\* (_evaluate_single_metric lines 1192-1210, _evaluate_item_metrics lines
\* 1053-1067).
ScoreOf(outcome) == IF outcome = "positive" THEN 4 ELSE 0

\* _run_evaluations: one MetricScore for every (item, metric) pair.
_run_evaluations(data, outcome) ==
    [i \in 1..data.items |-> [j \in 1..data.metrics |-> ScoreOf(outcome[i][j])]]

IsSuccessfulScore_nonneg(score) == score >= 0
\* Step 4, line 569: a score counts as a successful evaluation.
IsSuccessfulScore(score) == score > 0

\* Step 4, lines 561-589: successful_evaluations over all item results.
successful_evaluations(res) ==
    Cardinality({p \in (DOMAIN res) \X (1..MaxMetrics) :
                   /\ p[2] \in DOMAIN res[p[1]]
                   /\ IsSuccessfulScore(res[p[1]][p[2]])})

\* Step 4, lines 536-671: the fan-out, then the soft-success decision.
RunEvaluations(w) ==
    /\ pc[w] = "run_evaluations"
    /\ Begin(w, "run_evaluations")
    /\ \E outcome \in [1..job_data[w].items -> [1..job_data[w].metrics -> EvalOutcomes]] :
          LET res == _run_evaluations(job_data[w], outcome) IN
          /\ results' = [results EXCEPT ![w] = res]
          /\ IF successful_evaluations(res) > 0
             THEN StepDone(w, "run_evaluations", "generate_summary")
             ELSE StepRaised(w)
    /\ UNCHANGED <<lock, job_data, api_calls, ret, cur, dqc, queue_message, raw, events>>
    /\ UNCHANGED queueVars
    /\ UNCHANGED fanVars
    /\ UNCHANGED <<resolverVars, taskVars, payloads, retry_call, summary_call,
                   fetch_tasks, http_session>>

\* Step 5, lines 673-739: _generate_summary is a computation over the
\* results and the metric list; on the results of step 4 it does not raise.
GenerateSummary(w) ==
    /\ pc[w] = "generate_summary"
    /\ Begin(w, "generate_summary")
    /\ StepDone(w, "generate_summary", "post_results")
    /\ UNCHANGED <<lock, job_data, results, api_calls, ret, cur, dqc,
                   queue_message, raw, events>>
    /\ UNCHANGED queueVars
    /\ UNCHANGED fanVars
    /\ UNCHANGED <<resolverVars, taskVars, payloads, retry_call, summary_call,
                   fetch_tasks, http_session>>

PostResults_best_effort(w) ==
    /\ pc[w] = "post_results"
    /\ Begin(w, "post_results")
    /\ \E fails \in Fails :
          LET r == _fetch_with_retry(CallOk(fails, TRUE), 0) IN
          /\ api_calls' = [api_calls EXCEPT ![w] = @ \o CallsOf("post_results", r)]
          /\ posted' = [posted EXCEPT ![cur[w]] = @ + (IF r.ok THEN 1 ELSE 0)]
          /\ IF r.ok
             THEN StepDone(w, "post_results", "update_status")
             ELSE /\ UNCHANGED steps_completed
                  /\ pc' = [pc EXCEPT ![w] = "update_status"]
    /\ UNCHANGED <<lock, job_data, results, ret, cur, dqc, queue_message, raw, events>>
    /\ UNCHANGED <<body, inQueue, visible, dequeue_count, success_queue,
                   failure_queue, ext_status, issued>>
    /\ UNCHANGED fanVars
    /\ UNCHANGED <<resolverVars, taskVars, payloads, retry_call, summary_call,
                   fetch_tasks, http_session>>
\* Step 6, lines 741-809: _store_results under _fetch_with_retry; it raises
\* when post_evaluation_results returns False.
PostResults(w) ==
    /\ pc[w] = "post_results"
    /\ Begin(w, "post_results")
    /\ \E fails \in Fails :
          LET r == _fetch_with_retry(CallOk(fails, TRUE), 0) IN
          /\ api_calls' = [api_calls EXCEPT ![w] = @ \o CallsOf("post_results", r)]
          /\ posted' = [posted EXCEPT ![cur[w]] = @ + (IF r.ok THEN 1 ELSE 0)]
          /\ IF r.ok
             THEN StepDone(w, "post_results", "update_status")
             ELSE StepRaised(w)
    /\ UNCHANGED <<lock, job_data, results, ret, cur, dqc, queue_message, raw, events>>
    /\ UNCHANGED <<body, inQueue, visible, dequeue_count, success_queue,
                   failure_queue, ext_status, issued>>
    /\ UNCHANGED fanVars
    /\ UNCHANGED <<resolverVars, taskVars, payloads, retry_call, summary_call,
                   fetch_tasks, http_session>>

\* Step 7, lines 811-873: EvalRunCompleted; a failure is logged and not
\* raised.
UpdateStatusCompleted(w) ==
    /\ pc[w] = "update_status"
    /\ Begin(w, "update_status")
    /\ \E fails \in Fails :
          LET u == UpdateStatusWithRetry(cur[w], "EvalRunCompleted", fails) IN
          /\ api_calls' = [api_calls EXCEPT ![w] = @ \o u.calls]
          /\ ext_status' = [ext_status EXCEPT ![cur[w]] = u.status]
          /\ issued' = [issued EXCEPT ![cur[w]] = @ \cup {"EvalRunCompleted"}]
          /\ IF u.ok
             THEN StepDone(w, "update_status", "wrap_up")
             ELSE /\ UNCHANGED steps_completed
                  /\ pc' = [pc EXCEPT ![w] = "wrap_up"]
    /\ UNCHANGED <<lock, job_data, results, ret, cur, dqc, queue_message, raw, events>>
    /\ UNCHANGED <<body, inQueue, visible, dequeue_count, success_queue,
                   failure_queue, posted>>
    /\ UNCHANGED fanVars
    /\ UNCHANGED <<resolverVars, taskVars, payloads, retry_call, summary_call,
                   fetch_tasks, http_session>>

\* EvaluationApp._handle_queue_message, lines 283-311: True for a true
\* result of process_queue_message, False otherwise.
_handle_queue_message(r) == IF r = "True" THEN "True" ELSE "False"

\* A return that leaves the lock with the invocation that has ended.
Return_holding_lock(w, r) ==
    /\ ret' = [ret EXCEPT ![w] = r]
    /\ raw' = [raw EXCEPT ![w] = _handle_queue_message(r)]
    /\ pc' = [pc EXCEPT ![w] = "result"]
    /\ UNCHANGED <<lock, steps_completed, started, job_data, results, api_calls,
                   cur, dqc, queue_message, events>>
    /\ UNCHANGED queueVars
    /\ UNCHANGED fanVars
    /\ UNCHANGED <<resolverVars, taskVars, payloads, retry_call, summary_call,
                   fetch_tasks, http_session>>
\* process_queue_message returns value r: the lock is released and the
\* handler hands its own value to the consumer.
Return(w, r) ==
    /\ ret' = [ret EXCEPT ![w] = r]
    /\ lock' = [lock EXCEPT ![evaluation_engine(w)] = FALSE]
    /\ raw' = [raw EXCEPT ![w] = _handle_queue_message(r)]
    /\ pc' = [pc EXCEPT ![w] = "result"]
    /\ UNCHANGED <<steps_completed, started, job_data, results, api_calls,
                   cur, dqc, queue_message, events>>
    /\ UNCHANGED queueVars
    /\ UNCHANGED fanVars
    /\ UNCHANGED <<resolverVars, taskVars, payloads, retry_call, summary_call,
                   fetch_tasks, http_session>>

\* Lines 875-919: all_critical_steps_completed is returned.
all_critical_steps_completed(steps) ==
    \A step \in critical_steps : step \in Range(steps)

WrapUp(w) ==
    /\ pc[w] = "wrap_up"
    /\ Return(w, IF all_critical_steps_completed(steps_completed[w])
                 THEN "True" ELSE "False")

UnhandledException_propagates(w) ==
    /\ pc[w] = "job_except"
    /\ ret' = [ret EXCEPT ![w] = "raised"]
    /\ lock' = [lock EXCEPT ![evaluation_engine(w)] = FALSE]
    /\ pc' = [pc EXCEPT ![w] = "Exception"]
    /\ UNCHANGED <<steps_completed, started, job_data, results, api_calls,
                   cur, dqc, queue_message, raw, events>>
    /\ UNCHANGED queueVars
    /\ UNCHANGED fanVars
    /\ UNCHANGED <<resolverVars, taskVars, payloads, retry_call, summary_call,
                   fetch_tasks, http_session>>
\* Lines 921-942: the outermost except returns False.
UnhandledException(w) ==
    /\ pc[w] = "job_except"
    /\ Return(w, "False")

Engine(w) ==
    \/ StartJob(w)
    \/ FetchData(w)
    \/ ParseData(w)
    \/ UpdateStatusStarted(w)
    \/ RunEvaluations(w)
    \/ GenerateSummary(w)
    \/ PostResults(w)
    \/ UpdateStatusCompleted(w)
    \/ WrapUp(w)
    \/ UnhandledException(w)

Consumer(w) ==
    \/ \E m \in Msgs : Receive(w, m)
    \/ ReceiveFails(w)
    \/ ParseMessage(w)
    \/ ProcessResult(w)
    \/ HandleKeyError(w)
    \/ HandleJSONDecodeError(w)
    \/ HandleException(w)

\* The consumer alone, under every handler.
NextHandler ==
    \/ \E w \in Workers : Consumer(w)
    \/ \E w \in Workers : AnyHandler(w)
    \/ \E m \in Msgs : VisibilityTimeout(m)

SpecHandler == Init /\ [][NextHandler]_vars

\* Horizontal scaling: several worker instances run listen_for_messages
\* against the same queue. Each instance is a process of its own with its
\* own engine; what the instances share is the queue. Nothing in the loop
\* or in the engine renews the lease of a delivery.
Instances == Tasks

NextInstances ==
    \/ \E w \in Instances : Consumer(w)
    \/ \E w \in Instances : AnyHandler(w)
    \/ \E m \in Msgs : VisibilityTimeout(m)

SpecInstances == Init /\ [][NextInstances]_vars

\* ------------------------------------------------- the scoring fan-out
\* Scores and thresholds are in tenths: 0.0, 0.6 and 0.8 are 0, 6 and 8.
metric_timeout == 30         \* asyncio.wait_for(..., timeout=30.0), seconds
adapter_pass_mark == 5       \* MetricAdapter.evaluate: result.score >= 0.5
EvaluatorScores == {0, 6}
Thresholds == {0, 8}
Verdicts == {"none", "pass", "fail"}

\* A metric name is a sequence of characters.
\* str.lower, on the characters the names are made of.
lower(c) == CASE c = "A" -> "a" [] c = "B" -> "b" [] c = "X" -> "x" [] OTHER -> c

\* str.replace(old, new) for a one-character old and a new of length 0 or 1.
RECURSIVE replace(_, _, _)
replace(s, old, new) ==
    IF s = <<>> THEN <<>>
    ELSE (IF Head(s) = old THEN new ELSE <<Head(s)>>) \o replace(Tail(s), old, new)

\* Keys of registry.get_all_metrics_flat(), and the names a metric
\* configuration can carry: a key, a name whose fallback form is a key, and
\* a name that is neither.
registry == {<<"a", "_", "b">>}
MetricNames == {<<"a", "_", "b">>, <<"A", " ", "b">>, <<"x", "-", "y">>}

_normalize_metric_name_exact(metric_name, keys) == metric_name
\* _normalize_metric_name, lines 1106-1128: the name if it is a key, else
\* its lower-case form with spaces and hyphens replaced by underscores if
\* that is a key, else the name.
_normalize_metric_name(metric_name, keys) ==
    LET fallback_name ==
            replace(replace([i \in DOMAIN metric_name |-> lower(metric_name[i])],
                            " ", <<"_">>), "-", <<"_">>)
    IN IF metric_name \in keys THEN metric_name
       ELSE IF fallback_name \in keys THEN fallback_name
       ELSE metric_name

\* A metric configuration as the fan-out sees it: its threshold and its name.
MetricConfigs == [threshold : Thresholds, metric_name : MetricNames]

\* _evaluate_single_metric, lines 1147-1151: available_metrics.get(...) finds
\* a metric under the normalised name.
Registered(config) ==
    _normalize_metric_name(config.metric_name, registry) \in registry

\* What the evaluation of one (item, metric) pair does.
\*   returns           the evaluator returns an EvaluationResult with a score
\*                     and, if verdict is not "none", details["passed"]
\*   raises            the evaluator raises
\*   hangs             the evaluator never returns
\*   adapter_raises    MetricAdapter.evaluate itself raises
\*   coroutine_raises  _evaluate_single_metric raises outside its try
\* seconds is the time the evaluation takes. cancelled says, for an
\* evaluation longer than the timeout, whether wait_for gives TimeoutError
\* or the result that is there when the event loop runs again: evaluate is
\* a synchronous call on the event loop, and which of the two callbacks wins
\* depends on the asyncio of the build.
EvaluatorBehaviours ==
    [kind : {"returns"}, score : EvaluatorScores, verdict : Verdicts,
     seconds : {1}, cancelled : {FALSE}]
    \cup [kind : {"returns"}, score : {6}, verdict : {"none"},
          seconds : {40}, cancelled : BOOLEAN]
    \cup [kind : {"raises", "hangs", "adapter_raises", "coroutine_raises"},
          score : {0}, verdict : {"none"}, seconds : {1}, cancelled : {FALSE}]

\* MetricScore: the fields the properties are about. failure_category is
\* details['failure_category'], "none" when details has no such key.
MetricScore(score, passed, failure_category) ==
    [score |-> score, passed |-> passed, failure_category |-> failure_category]

\* MetricAdapter.evaluate, lines 57-100: the evaluator's verdict when it
\* supplied one, else score >= 0.5; an exception of the evaluator becomes a
\* MetricScore with score 0.0, passed False and details {"error": ...}.
MetricAdapter_evaluate(b) ==
    IF b.kind = "raises"
    THEN MetricScore(0, FALSE, "none")
    ELSE MetricScore(b.score,
                     IF b.verdict # "none" THEN b.verdict = "pass"
                     ELSE b.score >= adapter_pass_mark,
                     "none")

\* _evaluate_single_metric, line 1177: passed = score.score >= threshold.
PassedOf(adapter_score, threshold) == adapter_score.score >= threshold

\* _evaluate_single_metric, lines 1130-1210: a metric that is not in the
\* registry gives a metric_not_found score; an exception of metric.evaluate
\* gives a metric_evaluation_error score; otherwise the score of the adapter
\* with passed computed from the threshold.
_evaluate_single_metric(config, b) ==
    IF ~Registered(config)
    THEN MetricScore(0, FALSE, "metric_not_found")
    ELSE IF b.kind = "adapter_raises"
    THEN MetricScore(0, FALSE, "metric_evaluation_error")
    ELSE LET score == MetricAdapter_evaluate(b) IN
         MetricScore(score.score, PassedOf(score, config.threshold),
                     score.failure_category)

\* The evaluation blocks the event loop for ever: a registered metric whose
\* evaluator never returns from the synchronous metric.evaluate(item).
Blocks(config, b) == Registered(config) /\ b.kind = "hangs"

RaisedException == [exception |-> "Exception"]
IsException(sc) == "exception" \in DOMAIN sc

\* evaluate_metric_with_timeout, lines 1045-1067: wait_for with the
\* 30 s timeout; TimeoutError gives a metric_timeout_error score. The result
\* is a MetricScore or RaisedException (an exception that leaves the
\* coroutine and that gather hands back as a value).
evaluate_metric_with_timeout(config, b) ==
    IF b.kind = "coroutine_raises"
    THEN RaisedException
    ELSE IF b.seconds > metric_timeout /\ b.cancelled
    THEN MetricScore(0, FALSE, "metric_timeout_error")
    ELSE _evaluate_single_metric(config, b)

_evaluate_item_metrics_dropping(configs, bs) ==
    LET scores == [j \in DOMAIN configs |->
                      evaluate_metric_with_timeout(configs[j], bs[j])]
    IN SelectSeq(scores, LAMBDA sc : ~IsException(sc))
\* _evaluate_item_metrics, lines 1024-1104: gather(return_exceptions=True)
\* over the metrics; an exception becomes a metric_execution_error score.
_evaluate_item_metrics(configs, bs) ==
    LET scores == [j \in DOMAIN configs |->
                      evaluate_metric_with_timeout(configs[j], bs[j])]
    IN [j \in DOMAIN configs |->
           IF IsException(scores[j])
           THEN MetricScore(0, FALSE, "metric_execution_error")
           ELSE scores[j]]

\* _run_evaluations, lines 968-1020, for one item: process_dataset_item, and
\* for an item task that ended with an exception one
\* dataset_item_processing_error score for every metric configuration.
process_dataset_item(configs, bs, item_failed) ==
    IF item_failed
    THEN [j \in DOMAIN configs |->
             MetricScore(0, FALSE, "dataset_item_processing_error")]
    ELSE _evaluate_item_metrics(configs, bs)

\* _run_evaluations(dataset, metrics_config) is called for a dataset of n
\* items and a list of k metric configurations.
CallRunEvaluations(w) ==
    /\ pc[w] = "poll"
    /\ results[w] = NoResults
    /\ \E n \in 1..MaxItems, k \in 1..MaxMetrics :
         \E configs \in [1..k -> MetricConfigs] :
            /\ job_data' = [job_data EXCEPT ![w] = [items |-> n, metrics |-> k]]
            /\ metrics_config' = [metrics_config EXCEPT ![w] = configs]
    /\ pc' = [pc EXCEPT ![w] = "fan_out"]
    /\ UNCHANGED <<lock, steps_completed, started, results, api_calls, ret,
                   metric_scores, evaluated, cur, dqc, queue_message, raw, events>>
    /\ UNCHANGED queueVars
    /\ UNCHANGED <<resolverVars, taskVars, payloads, retry_call, summary_call,
                   fetch_tasks, http_session>>

\* The evaluator is not called for a metric that is not in the registry.
NotCalled == [kind |-> "not_called", score |-> 0, verdict |-> "none",
              seconds |-> 1, cancelled |-> FALSE]

\* process_dataset_item starts for the next dataset item.
StartItem(w) ==
    /\ pc[w] = "fan_out"
    /\ Len(results[w]) < job_data[w].items
    /\ evaluated' = [evaluated EXCEPT ![w] = NotEvaluated]
    /\ metric_scores' = [metric_scores EXCEPT ![w] = <<>>]
    /\ pc' = [pc EXCEPT ![w] = "item"]
    /\ UNCHANGED <<metrics_config, cur, dqc, queue_message, raw, events>>
    /\ UNCHANGED queueVars
    /\ UNCHANGED jobVars
    /\ UNCHANGED <<resolverVars, taskVars, payloads, retry_call, summary_call,
                   fetch_tasks, http_session>>

\* The next metric of the item is evaluated (the evaluations are synchronous
\* calls, so they run one after the other on the event loop), or the event
\* loop stays in an evaluator that never returns.
EvaluateMetric(w) ==
    /\ pc[w] = "item"
    /\ Len(evaluated[w].behaviours) < Len(metrics_config[w])
    /\ LET config == metrics_config[w][Len(evaluated[w].behaviours) + 1] IN
       \E b \in (IF Registered(config) THEN EvaluatorBehaviours ELSE {NotCalled}) :
          /\ evaluated' = [evaluated EXCEPT ![w].behaviours = Append(@, b)]
          /\ pc' = [pc EXCEPT ![w] = IF Blocks(config, b) THEN "blocked" ELSE "item"]
    /\ UNCHANGED <<metrics_config, metric_scores, cur, dqc, queue_message, raw, events>>
    /\ UNCHANGED queueVars
    /\ UNCHANGED jobVars
    /\ UNCHANGED <<resolverVars, taskVars, payloads, retry_call, summary_call,
                   fetch_tasks, http_session>>

\* The item task ends: with its DatasetItemResult, or with an exception that
\* _run_evaluations turns into a failure result.
FinishItem(w) ==
    /\ pc[w] = "item"
    /\ Len(evaluated[w].behaviours) = Len(metrics_config[w])
    /\ \E item_failed \in BOOLEAN :
          LET row == process_dataset_item(metrics_config[w],
                                          evaluated[w].behaviours, item_failed)
          IN /\ metric_scores' = [metric_scores EXCEPT ![w] = row]
             /\ evaluated' = [evaluated EXCEPT ![w].item_failed = item_failed]
             /\ results' = [results EXCEPT ![w] =
                    Append(@, [j \in DOMAIN row |-> row[j].score])]
    /\ pc' = [pc EXCEPT ![w] = "fan_out"]
    /\ UNCHANGED <<lock, steps_completed, started, job_data, api_calls, ret,
                   metrics_config, cur, dqc, queue_message, raw, events>>
    /\ UNCHANGED queueVars
    /\ UNCHANGED <<resolverVars, taskVars, payloads, retry_call, summary_call,
                   fetch_tasks, http_session>>

\* _run_evaluations returns processed_results.
ReturnResults(w) ==
    /\ pc[w] = "fan_out"
    /\ Len(results[w]) = job_data[w].items
    /\ pc' = [pc EXCEPT ![w] = "fan_returned"]
    /\ UNCHANGED <<cur, dqc, queue_message, raw, events>>
    /\ UNCHANGED queueVars
    /\ UNCHANGED jobVars
    /\ UNCHANGED fanVars
    /\ UNCHANGED <<resolverVars, taskVars, payloads, retry_call, summary_call,
                   fetch_tasks, http_session>>

\* The fan-out alone, for every dataset size, metric list and behaviour of
\* the evaluators.
NextFanOut ==
    \/ \E w \in Workers : CallRunEvaluations(w)
    \/ \E w \in Workers : StartItem(w)
    \/ \E w \in Workers : EvaluateMetric(w)
    \/ \E w \in Workers : FinishItem(w)
    \/ \E w \in Workers : ReturnResults(w)

InitFanOut == Init /\ \A m \in Msgs : body[m] = "valid"

SpecFanOut == InitFanOut /\ [][NextFanOut]_vars

\* ---------------------------------------------------------------------
\* MetricNameResolver. A metric name is a sequence of characters, so that
\* the normalisation and the similarity ratio are computed as the code
\* computes them.

\* Optional[Set[str]]: None, or a set of names.
None == <<>>
Some(names) == <<names>>

\* result.replace("__", "_"): one pass from the left, no overlaps.
RECURSIVE replace_double(_)
replace_double(s) ==
    IF Len(s) < 2 THEN s
    ELSE IF s[1] = "_" /\ s[2] = "_"
         THEN <<"_">> \o replace_double(SubSeq(s, 3, Len(s)))
         ELSE <<s[1]>> \o replace_double(Tail(s))

\* while "__" in result: result = result.replace("__", "_")
RECURSIVE clean_up(_)
clean_up(s) ==
    IF \E i \in 1..(Len(s) - 1) : s[i] = "_" /\ s[i + 1] = "_"
    THEN clean_up(replace_double(s))
    ELSE s

\* result.strip("_")
RECURSIVE strip(_)
strip(s) ==
    IF s # <<>> /\ Head(s) = "_" THEN strip(Tail(s))
    ELSE IF s # <<>> /\ s[Len(s)] = "_" THEN strip(SubSeq(s, 1, Len(s) - 1))
    ELSE s

\* _apply_basic_normalization(name) under the configured transformations.
_apply_basic_normalization(transformations, name) ==
    LET r1 == IF "lowercase" \in transformations
              THEN [i \in DOMAIN name |-> lower(name[i])] ELSE name
        r2 == IF "remove_spaces" \in transformations
              THEN replace(r1, " ", <<>>) ELSE r1
        r3 == IF "remove_special_chars" \in transformations
              THEN replace(replace(replace(r2, "(", <<>>), ")", <<>>), "-", <<"_">>)
              ELSE r2
    IN IF "snake_case" \in transformations
       THEN strip(clean_up(replace(replace(r3, " ", <<"_">>), "-", <<"_">>)))
       ELSE r3

\* The common blocks <<i, j, k>> of a and b: a[i..i+k-1] = b[j..j+k-1].
common_blocks(a, b) ==
    {m \in (1..Len(a)) \X (1..Len(b)) \X (1..Len(a)) :
        /\ m[1] + m[3] - 1 <= Len(a)
        /\ m[2] + m[3] - 1 <= Len(b)
        /\ SubSeq(a, m[1], m[1] + m[3] - 1) = SubSeq(b, m[2], m[2] + m[3] - 1)}

\* SequenceMatcher.find_longest_match: the longest block, the one that
\* starts earliest in a, and of those the one that starts earliest in b.
find_longest_match(a, b) ==
    CHOOSE m \in common_blocks(a, b) : \A o \in common_blocks(a, b) :
        \/ m[3] > o[3]
        \/ m[3] = o[3] /\ m[1] < o[1]
        \/ m[3] = o[3] /\ m[1] = o[1] /\ m[2] <= o[2]

\* Number of matching characters SequenceMatcher(None, a, b) finds: the
\* longest block, then the same to its left and to its right.
RECURSIVE matches(_, _)
matches(a, b) ==
    IF common_blocks(a, b) = {} THEN 0
    ELSE LET m == find_longest_match(a, b)
         IN m[3] + matches(SubSeq(a, 1, m[1] - 1), SubSeq(b, 1, m[2] - 1))
                 + matches(SubSeq(a, m[1] + m[3], Len(a)),
                           SubSeq(b, m[2] + m[3], Len(b)))

\* ratio() is 2.0 * matches / (len(a) + len(b)); Similar compares it with a
\* threshold given in tenths, and Better compares two ratios.
AtLeast(a, b, tenths) == 20 * matches(a, b) >= tenths * (Len(a) + Len(b))
Better(a, b1, b2) ==
    matches(a, b1) * (Len(a) + Len(b2)) > matches(a, b2) * (Len(a) + Len(b1))

\* _find_fuzzy_match(api_name, available_metrics): the values the loop can
\* return. It keeps the first name with the highest ratio at or above the
\* threshold; the set is iterated in its hash order, so with equal ratios
\* every one of them can be the first. The empty set stands for None.
_find_fuzzy_match(config, api_name, names) ==
    LET normalized_input ==
            _apply_basic_normalization(config.transformations, api_name)
        candidates == {n \in names :
            /\ matches(normalized_input, n) > 0
            /\ AtLeast(normalized_input, n, config.similarity_threshold)}
    IN {n \in candidates : \A o \in candidates : ~Better(normalized_input, o, n)}

normalization_fallback_unvalidated(config, api_name, available_metrics) ==
    _apply_basic_normalization(config.transformations, api_name)
\* Steps 4 and 5 of resolve_metric_name: the normalised name, or the name as
\* it came when a non-empty set was supplied and does not contain it.
normalization_fallback(config, api_name, available_metrics) ==
    LET normalized == _apply_basic_normalization(config.transformations, api_name)
    IN IF /\ available_metrics # None
          /\ available_metrics[1] # {}
          /\ normalized \notin available_metrics[1]
       THEN api_name
       ELSE normalized

\* Steps 3 to 5 of resolve_metric_name: the values it can return for a name
\* that is in neither table.
fuzzy_then_fallback(config, api_name, available_metrics) ==
    LET fuzzy_match ==
            IF /\ config.enabled
               /\ available_metrics # None
               /\ available_metrics[1] # {}
            THEN _find_fuzzy_match(config, api_name, available_metrics[1])
            ELSE {}
    IN IF fuzzy_match # {} THEN fuzzy_match
       ELSE {normalization_fallback(config, api_name, available_metrics)}

\* The same call with the fuzzy match tried before the two tables.
resolve_metric_name_fuzzy_first(config, api_name, available_metrics) ==
    LET fuzzy_match ==
            IF /\ config.enabled
               /\ available_metrics # None
               /\ available_metrics[1] # {}
            THEN _find_fuzzy_match(config, api_name, available_metrics[1])
            ELSE {}
    IN IF fuzzy_match # {} THEN fuzzy_match
       ELSE IF api_name \in DOMAIN config._mappings
       THEN {config._mappings[api_name]}
       ELSE IF api_name \in DOMAIN config._alternative_mappings
       THEN {config._alternative_mappings[api_name]}
       ELSE {normalization_fallback(config, api_name, available_metrics)}

\* resolve_metric_name(api_name, available_metrics): the values it can
\* return.
resolve_metric_name(config, api_name, available_metrics) ==
    IF api_name \in DOMAIN config._mappings
    THEN {config._mappings[api_name]}
    ELSE IF api_name \in DOMAIN config._alternative_mappings
    THEN {config._alternative_mappings[api_name]}
    ELSE fuzzy_then_fallback(config, api_name, available_metrics)

\* Names the API sends and names the registry holds.
ApiNames == {<<"A", " ", "b">>, <<"a", "-", "b">>, <<"A", "b">>, <<"a", "b">>,
             <<"X", " ", "y">>, <<"_", "x", "_", "_", "y">>}
RegistryNames == {<<"a", "b">>, <<"a", "_", "b">>, <<"a", "b", "c">>}

\* Tables and rules metric_mappings.json can hold. The first primary table
\* has the shape of the fallback the resolver uses when the file cannot be
\* read.
NoTable == [n \in {} |-> <<>>]
MappingTables ==
    {NoTable,
     (<<"A", "b">> :> <<"a", "b">>),
     (<<"A", " ", "b">> :> <<"a", "b">>) @@ (<<"a", "b">> :> <<"a", "_", "b">>)}
AlternativeTables ==
    {NoTable,
     (<<"A", " ", "b">> :> <<"a", "b", "c">>) @@ (<<"a", "-", "b">> :> <<"a", "b">>)}
SimilarityThresholds == {6, 8}
Transformations ==
    {{"lowercase", "snake_case"}, {"lowercase"},
     {"lowercase", "remove_spaces", "remove_special_chars", "snake_case"}}
ResolverConfigs ==
    [loaded : {TRUE}, _mappings : MappingTables,
     _alternative_mappings : AlternativeTables, enabled : BOOLEAN,
     similarity_threshold : SimilarityThresholds,
     transformations : Transformations]

\* MetricNameResolver.__init__ loads the tables and the fuzzy rules.
_load_configuration ==
    /\ resolver_config = NotLoaded
    /\ resolver_config' \in ResolverConfigs
    /\ UNCHANGED <<resolved, taskVars, fanVars, jobVars, queueVars, payloads, retry_call, summary_call,
                   fetch_tasks, http_session, pc, cur, dqc, queue_message, raw, events>>

\* A caller resolves a name, with or without the set of registry names.
Resolve ==
    /\ resolver_config # NotLoaded
    /\ \E api_name \in ApiNames,
          available_metrics \in {None} \cup {Some(S) : S \in SUBSET RegistryNames} :
         \E result \in resolve_metric_name(resolver_config, api_name,
                                           available_metrics) :
            resolved' = [called |-> TRUE, api_name |-> api_name,
                         available_metrics |-> available_metrics,
                         result |-> result]
    /\ UNCHANGED <<resolver_config, taskVars, fanVars, jobVars, queueVars, payloads, retry_call, summary_call,
                   fetch_tasks, http_session, pc, cur, dqc, queue_message, raw, events>>

\* The resolver alone, for every configuration and every call.
NextResolver ==
    \/ _load_configuration
    \/ Resolve

SpecResolver == InitFanOut /\ [][NextResolver]_vars

\* ---------------------------------------------------------------------
\* The tasks of the fan-out on the event loop: one task per dataset item
\* under dataset_semaphore, and in each of them one task per metric under
\* the semaphore of _evaluate_item_metrics. The event loop may run the ready
\* tasks in any order.

\* asyncio.Semaphore(3) of _run_evaluations and asyncio.Semaphore(8) of
\* _evaluate_item_metrics.
dataset_semaphore == 3
semaphore == 8

\* Values the Evaluation section of the application settings can give.
ParallelPrompts == {1, 10}
ParallelMetrics == {1, 5}

\* Settings._load_evaluation_config: the settings override the defaults.
\* EvaluationConfig.validate requires max_parallel_metrics > 0.
_load_evaluation_config ==
    /\ item_tasks = <<>>
    /\ ~gathered.returned
    /\ evaluation_config = EvaluationConfig
    /\ \E p \in ParallelPrompts, m \in ParallelMetrics :
          /\ m > 0
          /\ evaluation_config' = [max_parallel_prompts |-> p,
                                   max_parallel_metrics |-> m]
    /\ evaluation_config' # evaluation_config
    /\ UNCHANGED <<item_tasks, metric_tasks, finished, gathered>>
    /\ UNCHANGED <<resolverVars, fanVars, jobVars, queueVars, payloads, retry_call, summary_call,
                   fetch_tasks, http_session, pc, cur, dqc, queue_message, raw, events>>

\* Number of tasks of a list that hold the semaphore.
InProgress(tasks) == Cardinality({i \in DOMAIN tasks : tasks[i] = "in_progress"})

\* _run_evaluations, lines 984-988: one process_dataset_item coroutine per
\* dataset item, handed to asyncio.gather.
CreateItemTasks ==
    /\ item_tasks = <<>>
    /\ ~gathered.returned
    /\ \E n \in 1..MaxItems, k \in 1..MaxMetrics :
          /\ item_tasks' = [i \in 1..n |-> "created"]
          /\ metric_tasks' = [i \in 1..n |-> [j \in 1..k |-> "none"]]
          /\ finished' = [items |-> <<>>, metrics |-> [i \in 1..n |-> <<>>]]
    /\ UNCHANGED <<evaluation_config, gathered>>
    /\ UNCHANGED <<resolverVars, fanVars, jobVars, queueVars, payloads, retry_call, summary_call,
                   fetch_tasks, http_session, pc, cur, dqc, queue_message, raw, events>>

\* process_dataset_item(i, item) enters `async with dataset_semaphore`, and
\* _evaluate_item_metrics creates the metric tasks of the item and awaits
\* their gather.
ItemAcquires(i) ==
    /\ i \in DOMAIN item_tasks
    /\ item_tasks[i] = "created"
    /\ InProgress(item_tasks) < dataset_semaphore
    /\ item_tasks' = [item_tasks EXCEPT ![i] = "in_progress"]
    /\ metric_tasks' = [metric_tasks EXCEPT ![i] =
                           [j \in DOMAIN metric_tasks[i] |-> "created"]]
    /\ UNCHANGED <<evaluation_config, finished, gathered>>
    /\ UNCHANGED <<resolverVars, fanVars, jobVars, queueVars, payloads, retry_call, summary_call,
                   fetch_tasks, http_session, pc, cur, dqc, queue_message, raw, events>>

\* evaluate_metric_with_timeout(config) enters `async with semaphore` and
\* awaits wait_for around _evaluate_single_metric.
MetricAcquires(i, j) ==
    /\ i \in DOMAIN metric_tasks
    /\ j \in DOMAIN metric_tasks[i]
    /\ metric_tasks[i][j] = "created"
    /\ InProgress(metric_tasks[i]) < semaphore
    /\ metric_tasks' = [metric_tasks EXCEPT ![i][j] = "in_progress"]
    /\ UNCHANGED <<evaluation_config, item_tasks, finished, gathered>>
    /\ UNCHANGED <<resolverVars, fanVars, jobVars, queueVars, payloads, retry_call, summary_call,
                   fetch_tasks, http_session, pc, cur, dqc, queue_message, raw, events>>

\* The metric task ends (with its score, the time-out score or an
\* exception) and leaves the semaphore.
MetricReturns(i, j) ==
    /\ i \in DOMAIN metric_tasks
    /\ j \in DOMAIN metric_tasks[i]
    /\ metric_tasks[i][j] = "in_progress"
    /\ metric_tasks' = [metric_tasks EXCEPT ![i][j] = "done"]
    /\ finished' = [finished EXCEPT !.metrics[i] = Append(@, j)]
    /\ UNCHANGED <<evaluation_config, item_tasks, gathered>>
    /\ UNCHANGED <<resolverVars, fanVars, jobVars, queueVars, payloads, retry_call, summary_call,
                   fetch_tasks, http_session, pc, cur, dqc, queue_message, raw, events>>

\* The gather of the metric tasks of item i returns, process_dataset_item
\* builds the DatasetItemResult and leaves dataset_semaphore.
ItemReturns(i) ==
    /\ i \in DOMAIN item_tasks
    /\ item_tasks[i] = "in_progress"
    /\ \A j \in DOMAIN metric_tasks[i] : metric_tasks[i][j] = "done"
    /\ item_tasks' = [item_tasks EXCEPT ![i] = "done"]
    /\ finished' = [finished EXCEPT !.items = Append(@, i)]
    /\ UNCHANGED <<evaluation_config, metric_tasks, gathered>>
    /\ UNCHANGED <<resolverVars, fanVars, jobVars, queueVars, payloads, retry_call, summary_call,
                   fetch_tasks, http_session, pc, cur, dqc, queue_message, raw, events>>

gather_as_completed(task_results, order) ==
    [p \in DOMAIN order |-> task_results[order[p]]]
\* asyncio.gather(*tasks, return_exceptions=True): the results of the tasks
\* in the order of the tasks list, whatever order they ended in.
gather(task_results, order) == task_results

\* What the task of metric j of item i returns: the MetricScore of
\* metrics_config[j] for dataset.items[i].
TaskScore(i, j) == [item |-> i, metric |-> j]

\* The DatasetItemResult of item i: its fields are those of dataset.items[i],
\* its metric_scores what the gather of the item's metric tasks returned.
DatasetItemResult(i) ==
    [item |-> i,
     metric_scores |-> gather([j \in DOMAIN metric_tasks[i] |-> TaskScore(i, j)],
                              finished.metrics[i])]

\* The outer gather returns and _run_evaluations goes through its results
\* by index (lines 988-1022).
GatherReturns ==
    /\ item_tasks # <<>>
    /\ \A i \in DOMAIN item_tasks : item_tasks[i] = "done"
    /\ ~gathered.returned
    /\ gathered' = [returned |-> TRUE,
                    results |-> gather([i \in DOMAIN item_tasks |-> DatasetItemResult(i)],
                                       finished.items)]
    /\ UNCHANGED <<evaluation_config, item_tasks, metric_tasks, finished>>
    /\ UNCHANGED <<resolverVars, fanVars, jobVars, queueVars, payloads, retry_call, summary_call,
                   fetch_tasks, http_session, pc, cur, dqc, queue_message, raw, events>>

\* One fan-out under every schedule of its tasks.
NextTasks ==
    \/ _load_evaluation_config
    \/ CreateItemTasks
    \/ \E i \in 1..MaxItems : ItemAcquires(i)
    \/ \E i \in 1..MaxItems, j \in 1..MaxMetrics : MetricAcquires(i, j)
    \/ \E i \in 1..MaxItems, j \in 1..MaxMetrics : MetricReturns(i, j)
    \/ \E i \in 1..MaxItems : ItemReturns(i)
    \/ GatherReturns

SpecTasks == InitFanOut /\ [][NextTasks]_vars

\* ---------------------------------------------------------------------
\* _fetch_with_retry called directly, for every operation and every
\* exception the retried function can raise.

\* operation_name of the five retried calls of the pipeline.
OperationNames ==
    {"fetch_enriched_dataset", "fetch_metrics_configuration",
     "update_status_started", "post_results", "update_status_completed"}

\* An exception: the status code of its response (0: it has no response)
\* and what its text or class name mentions.
Exceptions == [status : {0, 400, 404, 408, 429, 500, 503},
               mentions : {"timeout", "connection", "other"}]

\* _extract_api_error_details(exception): the classification among the
\* details. A 4xx status is retryable only if it is 408 or 429 (502-504 are
\* not 4xx), a 5xx status is; a timeout or connection error is retryable
\* whatever the status.
_extract_api_error_details(exception) ==
    LET by_status ==
            IF exception.status >= 400 /\ exception.status < 500
            THEN [api_error_type |-> "client_error",
                  is_retryable |-> exception.status \in {408, 429, 502, 503, 504}]
            ELSE IF exception.status >= 500 /\ exception.status < 600
            THEN [api_error_type |-> "server_error", is_retryable |-> TRUE]
            ELSE [api_error_type |-> "unknown", is_retryable |-> TRUE]
    IN IF exception.mentions = "timeout"
       THEN [api_error_type |-> "timeout_error", is_retryable |-> TRUE]
       ELSE IF exception.mentions = "connection"
       THEN [api_error_type |-> "connection_error", is_retryable |-> TRUE]
       ELSE by_status

\* A caller awaits _fetch_with_retry(fetch_function, operation_name=...) for
\* a function that raises this exception in its first `fails` attempts.
FetchWithRetry ==
    /\ \E operation \in OperationNames, exception \in Exceptions, fails \in Fails :
          retry_call' =
              [called |-> TRUE, operation |-> operation, exception |-> exception,
               error_details |-> _extract_api_error_details(exception),
               fails |-> fails,
               result |-> _fetch_with_retry(CallOk(fails, TRUE), 0)]
    /\ UNCHANGED <<resolverVars, taskVars, fanVars, jobVars, queueVars, payloads, summary_call, fetch_tasks, http_session,
                   pc, cur, dqc, queue_message, raw, events>>

NextRetry == FetchWithRetry

SpecRetry == InitFanOut /\ [][NextRetry]_vars

\* ---------------------------------------------------------------------
\* Step 1 of the pipeline as the event loop runs it: asyncio.gather wraps
\* the two _fetch_with_retry coroutines in tasks and the step awaits both.

\* The rest of the state, which the fetch tasks leave alone.
fetchFrame ==
    <<resolverVars, taskVars, fanVars, jobVars, queueVars, payloads, retry_call,
      summary_call, http_session, pc, cur, dqc, queue_message, raw, events>>

\* Lines 335-350: process_queue_message holds the lock and awaits
\* asyncio.gather; each task runs to its first await, the API call of
\* attempt 0.
GatherFetches ==
    /\ fetch_tasks.job = "idle"
    /\ fetch_tasks' =
          [fetch_tasks EXCEPT
              !.job = "fetching",
              !.task = [f \in Fetches |->
                          [state |-> "calling", attempt |-> 0,
                           last_exception |-> "None"]]]
    /\ UNCHANGED fetchFrame

\* One step of a _fetch_with_retry task, lines 54-182. A call that is in
\* flight returns, or raises an exception: the except block keeps it in
\* last_exception and logs through log_operation_error, whose TypeError
\* ends the task; otherwise it sleeps before the next attempt or, after the
\* last one, raises last_exception. A sleep that ends is followed by the
\* next call. The task runs whatever has become of the job that started it.
FetchStep(f) ==
    LET t == fetch_tasks.task[f] IN
    /\ t.state \in {"calling", "sleeping"}
    /\ \E returns \in BOOLEAN, exception \in Exceptions :
          fetch_tasks' =
              [fetch_tasks EXCEPT !.task[f] =
                  IF t.state = "sleeping"
                  THEN [t EXCEPT !.state = "calling", !.attempt = @ + 1]
                  ELSE IF returns
                  THEN [t EXCEPT !.state = "returned"]
                  ELSE IF log_operation_error_raises(retry_log_properties)
                  THEN [t EXCEPT !.state = "raised", !.last_exception = exception]
                  ELSE IF t.attempt < max_retries
                  THEN [t EXCEPT !.state = "sleeping", !.last_exception = exception]
                  ELSE [t EXCEPT !.state = "raised", !.last_exception = exception]]
    /\ UNCHANGED fetchFrame

\* asyncio.gather(*aws) without return_exceptions: the first exception of a
\* task is propagated at once to the awaiting step; the other task is not
\* cancelled and goes on.
\* Lines 385-399 and 921-942: the exception reaches the except of step 1,
\* which logs and re-raises, and the outermost except returns False: the
\* job has ended and the lock is free.
GatherRaises ==
    /\ fetch_tasks.job = "fetching"
    /\ \E f \in Fetches : fetch_tasks.task[f].state = "raised"
    /\ fetch_tasks' = [fetch_tasks EXCEPT !.job = "failed"]
    /\ UNCHANGED fetchFrame

\* Both tasks have returned: gather returns the two results, the job goes on
\* with the later steps and ends.
GatherReturnsBoth ==
    /\ fetch_tasks.job = "fetching"
    /\ \A f \in Fetches : fetch_tasks.task[f].state = "returned"
    /\ fetch_tasks' = [fetch_tasks EXCEPT !.job = "fetched"]
    /\ UNCHANGED fetchFrame

\* The consumer receives the next message and its job takes the lock the
\* finished job has released.
LaterJob ==
    /\ fetch_tasks.job \in {"failed", "fetched"}
    /\ ~fetch_tasks.later_job
    /\ fetch_tasks' = [fetch_tasks EXCEPT !.later_job = TRUE]
    /\ UNCHANGED fetchFrame

NextFetch ==
    \/ GatherFetches
    \/ \E f \in Fetches : FetchStep(f)
    \/ GatherRaises
    \/ GatherReturnsBoth
    \/ LaterJob

SpecFetch == InitFanOut /\ [][NextFetch]_vars

\* ---------------------------------------------------------------------
\* The shared EvaluationApiClient under concurrent callers on one event
\* loop. http_session.lock is "None" before the asyncio.Lock exists, "free",
\* or the caller that holds it; .session is "None" or "open"; .aged says
\* that the open session was created more than 3600 seconds ago; .auth is
\* "closed" once close() has closed the authentication provider.

sessionFrame ==
    <<resolverVars, taskVars, fanVars, jobVars, queueVars, payloads, retry_call,
      summary_call, fetch_tasks, pc, cur, dqc, queue_message, raw, events>>

session_lock_ignored(s) == TRUE
\* async with on the asyncio.Lock: the caller goes on only when no caller
\* holds the lock (a lock that does not exist yet is created free).
session_lock_free(s) == s.lock \in {"None", "free"}

\* _make_request, line 132: async with self._get_session_lock().
MakeRequest(c) ==
    /\ http_session.caller[c] = "outside"
    /\ session_lock_free(http_session)
    /\ http_session' = [http_session EXCEPT !.lock = c, !.caller[c] = "locked"]
    /\ UNCHANGED sessionFrame

\* _get_session, lines 92-112, then line 139: a session that is missing or
\* too old is replaced (the old one is closed first), and the request is
\* sent on the session.
GetSession(c) ==
    /\ http_session.caller[c] = "locked"
    /\ http_session' = [http_session EXCEPT !.session = "open", !.aged = FALSE,
                                            !.caller[c] = "request"]
    /\ UNCHANGED sessionFrame

\* Lines 139-141: the response is read and returned, or the request raises;
\* either way the async with block is left and the lock released. A caller
\* whose request raised is in its except block, where _fetch_with_retry
\* sleeps before the next attempt.
Response(c) ==
    /\ http_session.caller[c] = "request"
    /\ \E raised \in BOOLEAN :
          http_session' =
              [http_session EXCEPT
                  !.lock = IF @ = c THEN "free" ELSE @,
                  !.caller[c] = IF raised THEN "backoff" ELSE "outside"]
    /\ UNCHANGED sessionFrame

\* await asyncio.sleep(retry_delay) of the caller ends.
BackoffEnds(c) ==
    /\ http_session.caller[c] = "backoff"
    /\ http_session' = [http_session EXCEPT !.caller[c] = "outside"]
    /\ UNCHANGED sessionFrame

\* More than 3600 seconds have passed since the session was created.
SessionAges ==
    /\ http_session.session = "open"
    /\ ~http_session.aged
    /\ http_session' = [http_session EXCEPT !.aged = TRUE]
    /\ UNCHANGED sessionFrame

\* close(), lines 145-154: the authentication provider is closed; with a
\* lock, the cleanup of the session runs under it.
CloseAcquires(c) ==
    /\ http_session.caller[c] = "outside"
    /\ http_session.lock # "None"
    /\ session_lock_free(http_session)
    /\ http_session' = [http_session EXCEPT !.lock = c, !.auth = "closed",
                                            !.caller[c] = "closing"]
    /\ UNCHANGED sessionFrame

\* close(), lines 155-164: the session is closed and forgotten, the lock
\* released.
CloseReleases(c) ==
    /\ http_session.caller[c] = "closing"
    /\ http_session' = [http_session EXCEPT
                            !.session = "None", !.aged = FALSE,
                            !.lock = IF @ = c THEN "free" ELSE @,
                            !.caller[c] = "outside"]
    /\ UNCHANGED sessionFrame

\* close(), lines 145-151 and 165-174: the authentication provider is
\* closed; without a lock the cleanup runs directly, in one piece when there
\* is no session to await.
CloseWithoutLock(c) ==
    /\ http_session.caller[c] = "outside"
    /\ http_session.lock = "None"
    /\ http_session' = [http_session EXCEPT !.session = "None", !.aged = FALSE,
                                            !.auth = "closed"]
    /\ UNCHANGED sessionFrame

NextSession ==
    \/ \E c \in ApiCallers : MakeRequest(c)
    \/ \E c \in ApiCallers : GetSession(c)
    \/ \E c \in ApiCallers : Response(c)
    \/ \E c \in ApiCallers : BackoffEnds(c)
    \/ SessionAges
    \/ \E c \in ApiCallers : CloseAcquires(c)
    \/ \E c \in ApiCallers : CloseReleases(c)
    \/ \E c \in ApiCallers : CloseWithoutLock(c)

SpecSession == InitFanOut /\ [][NextSession]_vars

\* ---------------------------------------------------------------------
\* _generate_summary called directly, for every result list and every
\* list of metric configurations. Of a MetricScore the summary reads the
\* name and the passed flag (and the score, for the average).

SummaryNames == {"m1", "m2"}
SummaryScores == [metric_name : SummaryNames, passed : BOOLEAN]

\* Sequences over S of length lo to hi.
SeqsOf(S, lo, hi) == UNION {[1..n -> S] : n \in lo..hi}

\* Sum of f[i] over the indices in idx.
RECURSIVE SumOver(_, _)
SumOver(f, idx) ==
    IF idx = {} THEN 0
    ELSE LET i == CHOOSE x \in idx : TRUE IN f[i] + SumOver(f, idx \ {i})

\* The inner loop with its break: the first score of the result that carries
\* the name (0: the result has none).
first_match(item_scores, metric_name) ==
    IF \E p \in DOMAIN item_scores : item_scores[p].metric_name = metric_name
    THEN CHOOSE p \in DOMAIN item_scores :
            /\ item_scores[p].metric_name = metric_name
            /\ \A q \in 1..(p - 1) : item_scores[q].metric_name # metric_name
    ELSE 0

\* scores: the results that hold a score of this name.
scored_results(result_list, metric_name) ==
    {i \in DOMAIN result_list : first_match(result_list[i], metric_name) # 0}

passed_count_without_break(result_list, metric_name) ==
    SumOver([i \in DOMAIN result_list |->
                Cardinality({p \in DOMAIN result_list[i] :
                    /\ result_list[i][p].metric_name = metric_name
                    /\ result_list[i][p].passed})],
            DOMAIN result_list)
\* passed_count: the results whose first score of this name has passed.
passed_count(result_list, metric_name) ==
    Cardinality({i \in scored_results(result_list, metric_name) :
        result_list[i][first_match(result_list[i], metric_name)].passed})

\* A percentage passed / total * 100 as the fraction num / den.
Percentage(passed, total) ==
    IF total > 0 THEN [num |-> 100 * passed, den |-> total]
    ELSE [num |-> 0, den |-> 1]

\* The MetricSummary of one metric configuration.
MetricSummary(result_list, metric_name) ==
    LET total_count == Cardinality(scored_results(result_list, metric_name))
        passed == passed_count(result_list, metric_name)
    IN [metric_name |-> metric_name,
        passed_count |-> IF total_count > 0 THEN passed ELSE 0,
        failed_count |-> IF total_count > 0 THEN total_count - passed ELSE 0,
        total_count |-> total_count,
        pass_percentage |-> Percentage(passed, total_count)]

\* _generate_summary, lines 1212-1289.
_generate_summary(result_list, config_names) ==
    LET metric_summaries ==
            [j \in DOMAIN config_names |-> MetricSummary(result_list, config_names[j])]
        total_evaluations ==
            SumOver([j \in DOMAIN metric_summaries |-> metric_summaries[j].total_count],
                    DOMAIN metric_summaries)
        total_passed ==
            SumOver([j \in DOMAIN metric_summaries |-> metric_summaries[j].passed_count],
                    DOMAIN metric_summaries)
    IN [total_prompts |-> Len(result_list),
        metric_summaries |-> metric_summaries,
        overall_pass_percentage |-> Percentage(total_passed, total_evaluations)]

\* A caller asks for the summary of a result list: every result holds a list
\* of MetricScores, which need not match the metric configurations.
GenerateSummaryCall ==
    /\ ~summary_call.called
    /\ \E result_list \in SeqsOf(SeqsOf(SummaryScores, 0, MaxMetrics), 0, MaxItems),
          config_names \in SeqsOf(SummaryNames, 1, MaxMetrics) :
          summary_call' = [called |-> TRUE, results |-> result_list,
                           config_names |-> config_names,
                           summary |-> _generate_summary(result_list, config_names)]
    /\ UNCHANGED <<resolverVars, taskVars, fanVars, jobVars, queueVars, payloads,
                   retry_call, fetch_tasks, http_session, pc, cur, dqc, queue_message, raw, events>>

NextSummary == GenerateSummaryCall

SpecSummary == InitFanOut /\ [][NextSummary]_vars

\* A coroutine calls evaluation_engine.process_queue_message(queue_message)
\* for a message; every caller does so once. The call waits at the lock.
Invoke(t, m) ==
    /\ pc[t] = "poll"
    /\ ret[t] = "unset"
    /\ cur' = [cur EXCEPT ![t] = m]
    /\ queue_message' = [queue_message EXCEPT ![t] = TRUE]
    /\ pc' = [pc EXCEPT ![t] = "handler"]
    /\ UNCHANGED <<dqc, raw, events>>
    /\ UNCHANGED queueVars
    /\ UNCHANGED jobVars
    /\ UNCHANGED fanVars
    /\ UNCHANGED <<resolverVars, taskVars, payloads, retry_call, summary_call,
                   fetch_tasks, http_session>>

\* The engine alone, under concurrent callers.
NextEngine ==
    \/ \E t \in Tasks, m \in Msgs : Invoke(t, m)
    \/ \E t \in Tasks : Engine(t)

SpecEngine == Init /\ [][NextEngine]_vars

\* The engine under concurrent callers whose jobs have one dataset item and
\* one metric: the lock is taken and released on the same paths whatever
\* the size of the job.
OneItemJobs ==
    \A t \in Tasks : job_data[t] \in {NoData, [items |-> 1, metrics |-> 1]}

NextLock == NextEngine /\ OneItemJobs'

\* The event loop runs every coroutine that can go on, and asyncio.Lock
\* wakes its waiters in the order they arrived: an invocation that can take
\* a step, or the lock, does so.
SpecEngineFair ==
    /\ InitFanOut
    /\ [][NextLock]_vars
    /\ \A t \in Tasks : WF_vars(Engine(t) /\ OneItemJobs')

\* The worker as main.py runs it: the consumer with the engine as handler.
Next ==
    \/ \E w \in Workers : Consumer(w)
    \/ \E w \in Workers : Engine(w)
    \/ \E m \in Msgs : VisibilityTimeout(m)

Spec == Init /\ [][Next]_vars

\* ======================================================================
\* Properties
\* ======================================================================
\* A delivery has ended: the consumer is back at the poll and cur, dqc, raw
\* and events still describe the delivery it has just finished.
DeliveryEnded(w) == pc[w] = "poll" /\ cur[w] # NoMsg

\* No delete call of the delivery failed.
DeletesWentThrough(w) == Calls(w, "delete") = Done(w, "delete")

\* Position of the first event with this name in the delivery (0: none).
FirstCall(w, name) ==
    IF Calls(w, name) = 0 THEN 0
    ELSE CHOOSE i \in DOMAIN events[w] :
           /\ events[w][i][1] = name
           /\ \A j \in 1..(i - 1) : events[w][j][1] # name

\* C1: in every delivery in which the handler returned true the consumer
\* makes exactly one success-audit write, then exactly one delete call, and
\* no failure-audit write.
C1_SuccessDelivery ==
    \A w \in Workers :
        (DeliveryEnded(w) /\ raw[w] = "True") =>
            /\ Calls(w, "success_audit") = 1
            /\ Calls(w, "delete") = 1
            /\ FirstCall(w, "success_audit") < FirstCall(w, "delete")
            /\ Calls(w, "failure_audit") = 0

\* C2: a delivery with dequeue_count = max_message_retries whose handler
\* returned false ends with the message deleted by exactly one delete and
\* with exactly one failure-audit write; the message is not in the queue any
\* more, so it is never delivered again.
C2_PoisonBound ==
    \A w \in Workers :
        (DeliveryEnded(w) /\ raw[w] = "False" /\ dqc[w] = max_message_retries) =>
            /\ Done(w, "delete") = 1
            /\ Calls(w, "delete") = 1
            /\ Calls(w, "failure_audit") = 1
            /\ ~inQueue[cur[w]]

\* C3: a message leaves the work queue only in a delivery in which the
\* handler returned true or whose dequeue_count >= max_message_retries; in
\* every other delivery it stays in the queue.
C3_DeleteOnlyOnSuccessOrPoison ==
    [][\A m \in Msgs :
          (inQueue[m] /\ ~inQueue'[m]) =>
              \E w \in Workers :
                  /\ cur[w] = m
                  /\ (raw[w] = "True" \/ dqc[w] >= max_message_retries)]_vars

\* C3 witness: a poison delete, the handler having returned false.
C3_Witness ==
    \E w \in Workers :
        /\ DeliveryEnded(w)
        /\ raw[w] = "False"
        /\ dqc[w] >= max_message_retries
        /\ Done(w, "delete") = 1
        /\ ~inQueue[cur[w]]

\* C4: post_results succeeds in at most one delivery of a message.
C4_PostedAtMostOnce == \A m \in Msgs : posted[m] <= 1

\* C5: whatever way the processing failed, the delivery whose dequeue_count
\* has reached max_message_retries ends with the message out of the queue
\* (a delivery in which the delete call itself failed is left aside).
C5_DeletedByMaxRetries ==
    \A w \in Workers :
        (DeliveryEnded(w) /\ dqc[w] >= max_message_retries /\ DeletesWentThrough(w))
            => ~inQueue[cur[w]]

\* C6: a delivery whose handler returned false at dequeue_count <
\* max_message_retries makes no delete, no success-audit or failure-audit
\* write and no EvalRunFailed update, and leaves the message in the queue.
C6_RetryLeavesMessage ==
    \A w \in Workers :
        (DeliveryEnded(w) /\ raw[w] = "False" /\ dqc[w] < max_message_retries) =>
            /\ Calls(w, "delete") = 0
            /\ Calls(w, "success_audit") = 0
            /\ Calls(w, "failure_audit") = 0
            /\ Calls(w, "status_failed") = 0
            /\ inQueue[cur[w]]

\* C6 witness: such a delivery has ended.
C6_Witness ==
    \E w \in Workers :
        /\ DeliveryEnded(w)
        /\ raw[w] = "False"
        /\ dqc[w] < max_message_retries
        /\ Calls(w, "handler") = 1
        /\ inQueue[cur[w]]

\* C7: a handler value that is not the boolean true never leads to a
\* success-audit write, nor to a delete below max_message_retries.
C7_NonTrueIsFailure ==
    \A w \in Workers :
        (raw[w] \in HandlerReturns \ {"True"}) =>
            /\ Calls(w, "success_audit") = 0
            /\ (Calls(w, "delete") > 0 => dqc[w] >= max_message_retries)

\* C8: a delivery whose body could not be parsed: below max_message_retries
\* the handler is not invoked and the message stays; from max_message_retries
\* on a failure-audit write is made and the message is deleted (a delivery
\* in which the delete call itself failed is left aside).
C8_UnparseableBody ==
    \A w \in Workers :
        (DeliveryEnded(w) /\ ~queue_message[w]) =>
            /\ Calls(w, "handler") = 0
            /\ dqc[w] < max_message_retries =>
                   (inQueue[cur[w]] /\ Calls(w, "delete") = 0)
            /\ dqc[w] >= max_message_retries =>
                   /\ Calls(w, "failure_audit") >= 1
                   /\ DeletesWentThrough(w) => ~inQueue[cur[w]]

Ran(w, step) == step \in Range(started[w])
\* Some MetricScore of the job has score > 0.
HasPositiveScore(w) ==
    \E i \in DOMAIN results[w] : \E j \in DOMAIN results[w][i] : results[w][i][j] > 0
HasFailedScore(w) ==
    \E i \in DOMAIN results[w] : \E j \in DOMAIN results[w][i] : results[w][i][j] <= 0

\* C10: once run_evaluations has run, with a score > 0 the step is recorded
\* and generate_summary is next (or has begun); with no score > 0 the step is
\* not recorded, none of steps 5 to 7 begins and the job returns false.
C10_SoftSuccess ==
    \A w \in Workers :
        Ran(w, "run_evaluations") =>
            IF HasPositiveScore(w)
            THEN /\ "run_evaluations" \in Range(steps_completed[w])
                 /\ (pc[w] = "generate_summary" \/ Ran(w, "generate_summary"))
            ELSE /\ "run_evaluations" \notin Range(steps_completed[w])
                 /\ ~Ran(w, "generate_summary")
                 /\ ~Ran(w, "post_results")
                 /\ ~Ran(w, "update_status")
                 /\ (pc[w] = "job_except" \/ ret[w] = "False")

\* C10 witness: a run with a positive and a failed score went on to
\* generate_summary.
C10_Witness ==
    \E w \in Workers :
        /\ Ran(w, "run_evaluations")
        /\ HasPositiveScore(w)
        /\ HasFailedScore(w)
        /\ Ran(w, "generate_summary")

\* A step of the job of worker w raised: the step has begun, is not in
\* steps_completed and is not the final status update (whose failure is not
\* raised).
StepFailed(w) ==
    \E i \in DOMAIN started[w] :
        /\ started[w][i] # "update_status"
        /\ started[w][i] \notin Range(steps_completed[w])

InPipeline(t) ==
    pc[t] \in {"fetch_data", "parse_data", "update_status_started",
               "run_evaluations", "generate_summary", "post_results",
               "update_status", "wrap_up", "job_except"}

\* C12: at most one invocation of process_queue_message per engine is inside
\* the pipeline; an invocation started meanwhile has begun no step.
C12_SingleFlight ==
    \A t1 \in Tasks, t2 \in Tasks :
        (t1 # t2 /\ evaluation_engine(t1) = evaluation_engine(t2) /\ InPipeline(t1))
            => ~InPipeline(t2)

\* C12 witness: an invocation waits for the lock while another is inside
\* the pipeline.
C12_Witness ==
    \E t1 \in Tasks, t2 \in Tasks :
        /\ t1 # t2
        /\ InPipeline(t1)
        /\ pc[t2] = "handler"
        /\ lock[evaluation_engine(t2)]

\* The fan-out has produced the MetricScores of a dataset item (the item it
\* scored last); evaluated[w] says what the evaluators did for it.
ItemScored(w) == pc[w] \in {"fan_out", "fan_returned"} /\ metric_scores[w] # <<>>
\* The evaluator of metric j was called for that item and its result was not
\* replaced by the failure result of the item.
Evaluation(w, j) ==
    /\ ItemScored(w)
    /\ ~evaluated[w].item_failed
    /\ j \in DOMAIN metrics_config[w]
    /\ Registered(metrics_config[w][j])

C14_TimeoutBecomesFailedScore ==
    \A w \in Workers :
        /\ pc[w] # "blocked"
        /\ \A j \in DOMAIN metrics_config[w] :
              (Evaluation(w, j) /\ evaluated[w].behaviours[j].seconds > metric_timeout)
                  => metric_scores[w][j] = MetricScore(0, FALSE, "metric_timeout_error")

\* C15: a pair whose evaluator raised has a MetricScore with score 0.0,
\* passed false and the metric_evaluation_error failure category, whatever
\* the threshold of the metric.
C15_RaiseBecomesEvaluationError ==
    \A w \in Workers :
        \A j \in DOMAIN metrics_config[w] :
            (Evaluation(w, j) /\ evaluated[w].behaviours[j].kind = "raises")
                => metric_scores[w][j] = MetricScore(0, FALSE, "metric_evaluation_error")

\* C16: the passed flag of a MetricScore is the verdict of the evaluator when
\* the evaluator supplied one, and score >= threshold only when it did not.
C16_PassedTrustsEvaluator ==
    \A w \in Workers :
        \A j \in DOMAIN metrics_config[w] :
            LET b == evaluated[w].behaviours[j] IN
            (Evaluation(w, j) /\ b.kind = "returns" /\ b.seconds <= metric_timeout)
                => metric_scores[w][j].passed =
                       IF b.verdict # "none" THEN b.verdict = "pass"
                       ELSE b.score >= metrics_config[w][j].threshold

\* The step the job of worker w began last, "none" before the first.
LastStarted(w) ==
    IF started[w] = <<>> THEN "none" ELSE started[w][Len(started[w])]
\* What the retried operation `name` did in the job of worker w: its calls
\* and the sleeps that follow them.
OperationTrace(w, name) ==
    LET idx == {i \in DOMAIN api_calls[w] :
                  \/ api_calls[w][i][1] = name
                  \/ /\ api_calls[w][i][1] = "sleep"
                     /\ i > 1
                     /\ api_calls[w][i - 1][1] = name}
    IN SelectSeq([i \in DOMAIN api_calls[w] |->
                     IF i \in idx THEN api_calls[w][i] ELSE <<"other", FALSE>>],
                 LAMBDA c : c[1] # "other")

\* C17: a retried operation of which every attempt failed made exactly
\* max_retries + 1 = 4 calls, slept 60 s, 120 s and 240 s between them and
\* did not sleep after the last: here for post_results, the one retried call
\* of step 6, whose failure ends the job.
C17_BackoffSchedule ==
    \A w \in Workers :
        (pc[w] = "job_except" /\ LastStarted(w) = "post_results") =>
            OperationTrace(w, "post_results") =
                <<(<<"post_results", FALSE>>), (<<"sleep", base_delay>>),
                  (<<"post_results", FALSE>>), (<<"sleep", 2 * base_delay>>),
                  (<<"post_results", FALSE>>), (<<"sleep", 4 * base_delay>>),
                  (<<"post_results", FALSE>>)>>

\* The job of worker w made a call of this name to the results API.
Called(w, name) == \E i \in DOMAIN api_calls[w] : api_calls[w][i][1] = name
\* A step of the job has begun and has not been recorded as completed.
StepNotCompleted(w, step) ==
    Ran(w, step) /\ step \notin Range(steps_completed[w])

\* C18: when the EvalRunStarted update has failed, the job returns false and
\* none of run_evaluations, generate_summary, post_results and the
\* EvalRunCompleted update is executed: no evaluation result exists and no
\* results are posted.
C18_StartedFailureIsFatal ==
    \A w \in Workers :
        StepNotCompleted(w, "update_status_started") =>
            /\ ~Ran(w, "run_evaluations")
            /\ ~Ran(w, "generate_summary")
            /\ ~Ran(w, "post_results")
            /\ ~Ran(w, "update_status")
            /\ results[w] = NoResults
            /\ ~Called(w, "post_results")
            /\ ~Called(w, "EvalRunCompleted")
            /\ (pc[w] = "job_except" \/ ret[w] = "False")

\* C18 witness: a job whose EvalRunStarted update failed has returned false
\* to the consumer.
C18_Witness ==
    \E w \in Workers :
        /\ StepNotCompleted(w, "update_status_started")
        /\ Called(w, "EvalRunStarted")
        /\ pc[w] = "result"
        /\ ret[w] = "False"

C20_StatusIsTerminalAfterDelete ==
    \A m \in Msgs : ~inQueue[m] => ext_status[m] # "EvalRunStarted"

\* Positions of the consumer inside one iteration of its loop.
IterationPcs == {"parse", "handler", "result", "KeyError", "JSONDecodeError",
                 "Exception"}

\* C21: whatever is raised while a message is received, parsed or processed
\* (an audit write, a status update and a delete call included), every
\* except branch of listen_for_messages is left towards the next poll, and
\* the consumer is never anywhere but in its loop or in the job it awaits.
C21_LoopGoesOn ==
    [][\A w \in Workers :
          /\ (pc[w] \in {"KeyError", "JSONDecodeError", "Exception"}
                  /\ pc'[w] # pc[w]) => pc'[w] = "poll"
          /\ pc'[w] \in IterationPcs \cup {"poll"} \/ InPipeline(w)']_vars

\* C21 witness: an iteration in which the delete call raised has ended and
\* the consumer is back at the poll.
C21_Witness ==
    \E w \in Workers :
        /\ DeliveryEnded(w)
        /\ Calls(w, "delete") > Done(w, "delete")
        /\ Calls(w, "failure_audit") > Done(w, "failure_audit")

\* An audit write of this name failed in the delivery of worker w before
\* any delete call of that delivery.
AuditFailedBeforeDelete(w, name) ==
    \E i \in DOMAIN events[w] :
        /\ events[w][i] = Ev(name, FALSE)
        /\ \A k \in 1..i : events[w][k][1] # "delete"

\* C22: a delivery in which the success-audit write failed still calls
\* delete once; a delivery at dequeue_count >= max_message_retries in which
\* the failure-audit write failed still calls delete; the message is gone
\* unless the delete call itself failed.
C22_AuditFailureKeepsDecision ==
    \A w \in Workers :
        DeliveryEnded(w) =>
            /\ AuditFailedBeforeDelete(w, "success_audit") =>
                   /\ Calls(w, "delete") = 1
                   /\ DeletesWentThrough(w) => ~inQueue[cur[w]]
            /\ (AuditFailedBeforeDelete(w, "failure_audit")
                    /\ dqc[w] >= max_message_retries) =>
                   /\ Calls(w, "delete") = 1
                   /\ DeletesWentThrough(w) => ~inQueue[cur[w]]

\* The name of the last resolve_metric_name call as normalisation leaves it.
NormalizedName ==
    _apply_basic_normalization(resolver_config.transformations, resolved.api_name)

\* C23: a name that is a key of the primary alias table resolves to its
\* entry there, and a name that is only a key of the alternative-name table
\* resolves to its entry there, for every set of available metrics and
\* every setting of the fuzzy rules.
C23_TablesBeforeFuzzy ==
    resolved.called =>
        /\ resolved.api_name \in DOMAIN resolver_config._mappings
              => resolved.result = resolver_config._mappings[resolved.api_name]
        /\ (/\ resolved.api_name \notin DOMAIN resolver_config._mappings
            /\ resolved.api_name \in DOMAIN resolver_config._alternative_mappings)
              => resolved.result =
                     resolver_config._alternative_mappings[resolved.api_name]

\* C23 witness: a name of the primary table was resolved while fuzzy matching
\* was enabled and another available metric scored at or above the threshold.
C23_Witness ==
    /\ resolved.called
    /\ resolved.api_name \in DOMAIN resolver_config._mappings
    /\ resolver_config.enabled
    /\ resolved.available_metrics # None
    /\ \E n \in resolved.available_metrics[1] :
          /\ n # resolved.result
          /\ AtLeast(NormalizedName, n, resolver_config.similarity_threshold)

\* C24: with fuzzy matching disabled, a name that is in neither table and
\* whose normalised form is not in the supplied set of available metrics is
\* returned unchanged.
C24_UnresolvedNameUnchanged ==
    (/\ resolved.called
     /\ resolved.api_name \notin DOMAIN resolver_config._mappings
     /\ resolved.api_name \notin DOMAIN resolver_config._alternative_mappings
     /\ ~resolver_config.enabled
     /\ resolved.available_metrics # None
     /\ NormalizedName \notin resolved.available_metrics[1])
        => resolved.result = resolved.api_name

\* C25: when post_results has failed, the job returns false and makes no
\* EvalRunCompleted update; an EvalRunCompleted update is made only by a job
\* whose post_results call succeeded before it.
C25_NoCompletedWithoutPost ==
    \A w \in Workers :
        /\ StepNotCompleted(w, "post_results") =>
              /\ Called(w, "post_results")
              /\ ~Ran(w, "update_status")
              /\ ~Called(w, "EvalRunCompleted")
              /\ (pc[w] = "job_except" \/ ret[w] = "False")
        /\ \A i \in DOMAIN api_calls[w] :
              api_calls[w][i][1] = "EvalRunCompleted" =>
                  \E j \in 1..(i - 1) : api_calls[w][j] = <<"post_results", TRUE>>

\* C25 witness: a job whose post_results call failed has returned false to
\* the consumer.
C25_Witness ==
    \E w \in Workers :
        /\ StepNotCompleted(w, "post_results")
        /\ Called(w, "post_results")
        /\ pc[w] = "result"
        /\ ret[w] = "False"

\* C26: a job whose dataset payload or metrics-configuration payload is
\* empty or absent fails in fetch_data: the step is not recorded, parse_data
\* and the later steps do not begin, and the job returns false.
C26_EmptyPayloadFailsFetch ==
    \A w \in Workers :
        (Ran(w, "fetch_data")
            /\ (payloads[w].dataset # "items" \/ payloads[w].metrics # "items")) =>
                /\ "fetch_data" \notin Range(steps_completed[w])
                /\ started[w] = <<"fetch_data">>
                /\ job_data[w] = NoData
                /\ (pc[w] = "job_except" \/ ret[w] = "False")

\* C26 witness: a job that was served a dataset with entries and a metrics
\* configuration without entries, both calls answered without an HTTP error,
\* has returned false.
C26_Witness ==
    \E w \in Workers :
        /\ payloads[w] = [dataset |-> "items", metrics |-> "empty"]
        /\ api_calls[w] = <<<<"fetch_enriched_dataset", TRUE>>,
                            <<"fetch_metrics_configuration", FALSE>>>>
        /\ pc[w] = "result"
        /\ ret[w] = "False"

\* The steps of process_queue_message in the order of its code, under the
\* names it appends to steps_completed (the seventh, the EvalRunCompleted
\* update, is appended as "update_status").
PipelineSteps ==
    <<"fetch_data", "parse_data", "update_status_started", "run_evaluations",
      "generate_summary", "post_results", "update_status">>
IsPrefix(s, t) == Len(s) <= Len(t) /\ s = SubSeq(t, 1, Len(s))

\* C27: the steps a job has begun are a prefix of the fixed sequence, every
\* step but the one begun last has finished without raising, and
\* steps_completed is at every moment a prefix of the fixed sequence.
C27_StepsInOrder ==
    \A w \in Workers :
        /\ IsPrefix(started[w], PipelineSteps)
        /\ IsPrefix(steps_completed[w], PipelineSteps)
        /\ Len(steps_completed[w]) <= Len(started[w])
        /\ Len(started[w]) <= Len(steps_completed[w]) + 1

\* C27 witness: a job has begun and completed all seven steps.
C27_Witness ==
    \E w \in Workers :
        /\ started[w] = PipelineSteps
        /\ steps_completed[w] = PipelineSteps

C29_ConfiguredBounds ==
    /\ InProgress(item_tasks) <= evaluation_config.max_parallel_prompts
    /\ \A i \in DOMAIN metric_tasks :
          InProgress(metric_tasks[i]) <= evaluation_config.max_parallel_metrics

\* C30: whatever the exception is classified as, retryable or not, a call of
\* which every attempt raised made max_retries further attempts after the
\* first, with the delays base_delay, 2 * base_delay and 4 * base_delay
\* between them.
C30_RetryIgnoresClassification ==
    (retry_call.called /\ retry_call.fails > max_retries) =>
        /\ ~retry_call.result.ok
        /\ retry_call.result.calls = max_retries + 1
        /\ retry_call.result.sleeps = <<base_delay, 2 * base_delay, 4 * base_delay>>

\* C40: called with a non-empty set of available metrics for a name that is
\* a key of neither table, resolve_metric_name returns a member of the set
\* or the name exactly as it came, with fuzzy matching enabled or not.
C40_MemberOrOriginal ==
    (/\ resolved.called
     /\ resolved.api_name \notin DOMAIN resolver_config._mappings
     /\ resolved.api_name \notin DOMAIN resolver_config._alternative_mappings
     /\ resolved.available_metrics # None
     /\ resolved.available_metrics[1] # {})
        => \/ resolved.result \in resolved.available_metrics[1]
           \/ resolved.result = resolved.api_name

\* C40 witness: such a call returned the name as it came, a name that
\* normalisation would have changed and that no available metric matches.
C40_Witness ==
    /\ resolved.called
    /\ resolved.api_name \notin DOMAIN resolver_config._mappings
    /\ resolved.api_name \notin DOMAIN resolver_config._alternative_mappings
    /\ resolver_config.enabled
    /\ resolved.available_metrics # None
    /\ resolved.available_metrics[1] # {}
    /\ resolved.result = resolved.api_name
    /\ NormalizedName # resolved.api_name
    /\ resolved.result \notin resolved.available_metrics[1]

\* The name of metric configuration j with spaces and hyphens replaced by
\* underscores, in lower case.
FallbackName(w, j) ==
    LET name == metrics_config[w][j].metric_name
    IN replace(replace([i \in DOMAIN name |-> lower(name[i])], " ", <<"_">>),
               "-", <<"_">>)

\* C31: for a metric whose name is not a registry key, the evaluator
\* registered under its fallback form is called when that form is a key;
\* only when it is not a key either does the pair get score 0.0, passed
\* false and the category metric_not_found, no evaluator is called, and the
\* item still gets a score for every metric.
C31_FallbackBeforeNotFound ==
    \A w \in Workers :
        (ItemScored(w) /\ ~evaluated[w].item_failed) =>
            \A j \in DOMAIN metrics_config[w] :
                metrics_config[w][j].metric_name \notin registry =>
                    IF FallbackName(w, j) \in registry
                    THEN /\ evaluated[w].behaviours[j] # NotCalled
                         /\ metric_scores[w][j].failure_category # "metric_not_found"
                    ELSE /\ evaluated[w].behaviours[j] = NotCalled
                         /\ metric_scores[w][j] = MetricScore(0, FALSE, "metric_not_found")
                         /\ Len(metric_scores[w]) = Len(metrics_config[w])

\* C31 witness: an item was scored for a metric found under its fallback
\* form, whose evaluator returned a score above 0, and for a metric that is
\* not in the registry under either form.
C31_Witness ==
    \E w \in Workers :
        /\ ItemScored(w)
        /\ ~evaluated[w].item_failed
        /\ \E j \in DOMAIN metrics_config[w] :
              /\ metrics_config[w][j].metric_name \notin registry
              /\ FallbackName(w, j) \in registry
              /\ metric_scores[w][j].score > 0
        /\ \E j \in DOMAIN metrics_config[w] :
              /\ FallbackName(w, j) \notin registry
              /\ metric_scores[w][j].failure_category = "metric_not_found"

\* The metric summaries of the last summary that count at least one score.
WithScores ==
    {j \in DOMAIN summary_call.summary.metric_summaries :
        summary_call.summary.metric_summaries[j].total_count > 0}

\* C32: overall_pass_percentage lies in [0, 100]; it is 100 times the sum of
\* the passed counts over the sum of the total counts of the metrics with at
\* least one score, and 0 when there is no such metric; and in every metric
\* summary passed_count + failed_count = total_count.
C32_SummaryArithmetic ==
    summary_call.called =>
        LET ms == summary_call.summary.metric_summaries
            overall == summary_call.summary.overall_pass_percentage
            passed == SumOver([j \in DOMAIN ms |-> ms[j].passed_count], WithScores)
            total == SumOver([j \in DOMAIN ms |-> ms[j].total_count], WithScores)
        IN /\ overall.den > 0
           /\ overall.num >= 0
           /\ overall.num <= 100 * overall.den
           /\ IF WithScores = {} THEN overall.num = 0
              ELSE overall.num * total = 100 * passed * overall.den
           /\ \A j \in DOMAIN ms :
                 /\ ms[j].passed_count + ms[j].failed_count = ms[j].total_count
                 /\ ms[j].passed_count >= 0
                 /\ ms[j].failed_count >= 0

\* C32 witness: a summary over two metrics, one with scores of which some
\* passed and some failed, one without any score, and a result that holds
\* two scores of the same name.
C32_Witness ==
    /\ summary_call.called
    /\ \E j \in WithScores :
          /\ summary_call.summary.metric_summaries[j].passed_count > 0
          /\ summary_call.summary.metric_summaries[j].failed_count > 0
    /\ \E j \in DOMAIN summary_call.summary.metric_summaries : j \notin WithScores
    /\ \E i \in DOMAIN summary_call.results :
          /\ Len(summary_call.results[i]) = 2
          /\ summary_call.results[i][1].metric_name = summary_call.results[i][2].metric_name
          /\ summary_call.results[i][1].passed # summary_call.results[i][2].passed

\* The step sends an EvalRunFailed update for the message of worker w.
SendsFailed(w) ==
    Cardinality({i \in DOMAIN events'[w] : events'[w][i][1] = "status_failed"})
        > Calls(w, "status_failed")
\* The step sends the EvalRunCompleted update of the job of worker w.
SendsCompleted(w) == pc[w] = "update_status" /\ pc'[w] # "update_status"

\* C33: EvalRunCompleted and EvalRunFailed are sent for a run only after
\* EvalRunStarted has been sent for it, and EvalRunFailed is not sent for a
\* run for which EvalRunCompleted has been sent.
C33_StatusOrder ==
    [][\A w \in Workers :
          /\ SendsCompleted(w) => "EvalRunStarted" \in issued[cur[w]]
          /\ SendsFailed(w) =>
                /\ "EvalRunStarted" \in issued[cur[w]]
                /\ "EvalRunCompleted" \notin issued[cur[w]]]_vars

\* C34: in an iteration that ran final-failure handling, a delete call for
\* the message follows the last failure-audit write of the handling.
C34_FinalFailureDeletes ==
    \A w \in Workers :
        (DeliveryEnded(w) /\ Calls(w, "failure_audit") > 0) =>
            \E j \in DOMAIN events[w] :
                /\ events[w][j][1] = "delete"
                /\ \A i \in DOMAIN events[w] :
                      events[w][i][1] = "failure_audit" => i < j

\* C35: no message is in the hands of the handlers of two worker instances
\* at the same time.
C35_OneProcessor ==
    \A w1 \in Instances, w2 \in Instances :
        (w1 # w2 /\ pc[w1] = "handler" /\ pc[w2] = "handler") =>
            cur[w1] # cur[w2]

\* A fetch task is inside its retry loop: a call is in flight or it sleeps.
InRetryLoop(f) == fetch_tasks.task[f].state \in {"calling", "sleeping"}

\* C36: once the job whose fetch_data step failed has ended, none of its two
\* fetch tasks is inside its retry loop, whether a later job has started or
\* not.
C36_NoFetchAfterJob ==
    fetch_tasks.job = "failed" => \A f \in Fetches : ~InRetryLoop(f)

\* C37: the lock of an engine is held only while an invocation on that
\* engine is inside the pipeline, and an invocation that waits for the lock
\* gets inside the pipeline.
C37_LockReleased ==
    /\ [](\A e \in Workers :
            lock[e] => \E t \in Tasks : evaluation_engine(t) = e /\ InPipeline(t))
    /\ \A t \in Tasks : (pc[t] = "handler") ~> InPipeline(t)

\* C37 witness: an invocation has ended through the outermost except (it
\* returned False before fetch_data completed) and the other invocation, on
\* the same engine, has taken the lock after it.
C37_Witness ==
    \E t1 \in Tasks, t2 \in Tasks :
        /\ t1 # t2
        /\ evaluation_engine(t1) = evaluation_engine(t2)
        /\ ret[t1] = "False"
        /\ steps_completed[t1] = <<>>
        /\ InPipeline(t2)
        /\ lock[evaluation_engine(t2)]

\* The job of worker w has not completed parse_data.
BeforeParsed(w) == "parse_data" \notin Range(steps_completed[w])
\* API calls of a job that write to the results API.
ApiWrites(w) ==
    {i \in DOMAIN api_calls[w] :
        api_calls[w][i][1] \in {"EvalRunStarted", "EvalRunCompleted", "post_results"}}

\* C38: a job that has not completed parse_data, and so every job that
\* fails in fetch_data or parse_data, has made no status update and no
\* post_results call, and no step of it changes the status of the run, the
\* stored results or the statuses sent for the run.
C38_EarlyFailureWritesNothing ==
    /\ [](\A w \in Workers :
            (pc[w] = "result" /\ ret[w] = "False" /\ BeforeParsed(w)) =>
                ApiWrites(w) = {})
    /\ [][\A w \in Workers :
            (InPipeline(w) /\ BeforeParsed(w)) =>
                UNCHANGED <<ext_status, posted, issued>>]_vars

\* C38 witness: the second delivery of a message has failed in parse_data
\* after its fetches, and the first one had failed before any status was
\* sent.
C38_Witness ==
    \E w \in Workers :
        /\ pc[w] = "result"
        /\ ret[w] = "False"
        /\ steps_completed[w] = <<"fetch_data">>
        /\ api_calls[w] # <<>>
        /\ dqc[w] = 2
        /\ issued[cur[w]] = {}

\* Callers whose request is in flight on the session.
InFlight == {c \in ApiCallers : http_session.caller[c] = "request"}
\* This step closes the open session: close() forgets it, or _get_session
\* replaces the one that had aged.
SessionCloses ==
    /\ http_session.session = "open"
    /\ \/ http_session'.session = "None"
       \/ http_session.aged /\ ~http_session'.aged

====
